---- MODULE Spec2Model ----
(***************************************************************************)
(* A model of sockeye/training.py: the early-stopping training loop        *)
(* (GluonEarlyStoppingTrainer.fit), its Ledger (TrainState), the           *)
(* checkpoint/resume protocol (_save_training_state/_load_training_state), *)
(* the rank-0-authoritative decisions under Horovod and the shard          *)
(* dispatch of _forward_backward.                                          *)
(*                                                                         *)
(* Three specifications share the module:                                  *)
(*   Spec       one process: fit, the main loop, the snapshot protocol     *)
(*              with process interruption and a later fit call.            *)
(*   SpecHvd    several Horovod workers taking the decisions of one        *)
(*              checkpoint after another (_determine_improvement,          *)
(*              _determine_convergence) with MPI broadcasts.               *)
(*   SpecShards _step and _forward_backward of one batch after another,    *)
(*              shard by shard.                                            *)
(***************************************************************************)
EXTENDS Integers, Sequences, FiniteSets, TLC

VARIABLES
    env,              \* what every fit call of the experiment shares: intervals, training data
    config,           \* the TrainerConfig of the running fit call (self.config)
    state,            \* the in-memory Ledger (self.state), NoState before fit creates or loads it
    iter,             \* train_iter: the cursor into the epoch
    resume_training,  \* fit's local: whether this call resumed from a snapshot
    pc,               \* the position of the process in fit
    disk,             \* the output location: training_state dir, its temp and delete siblings
    valSeq,           \* what _evaluate returned at the checkpoints 1..state.checkpoint that led
                      \* to the Ledger, kept beside it in memory and in its snapshot
    nsteps,           \* number of _step calls completed by a fit call that started fresh
    nsamples,         \* sum of batch.samples over those calls
    last_fit,         \* what the previous fit call returned and why, until the loop of the
                      \* next call starts; NoFit if there is none or it was interrupted
    hvd,              \* SpecHvd: per-worker state and broadcast channels
    sh,               \* SpecShards: the dispatcher and the Ledger counters it advances
    pf,               \* SpecDecide: one call of a decision function, its arguments and result
    cv,               \* SpecWindow: a fresh run seen checkpoint by checkpoint
    lp,               \* SpecLoop: fit calls with budgets, one after another
    ev,               \* SpecEval: the head of fit and one _evaluate call
    ck,               \* SpecArtifacts: the Ledger, the trainer and the files of the checkpoints
    tm,               \* SpecClock: the wall clock and the Ledger's elapsed-time fields
    sp,               \* SpecSpeed: the Speedometer and the counters _step hands it
    sv                \* SpecSave: _save_training_state operation by operation

vars == <<env, config, state, iter, resume_training, pc, disk, valSeq, nsteps, nsamples, last_fit,
          hvd, sh, pf, cv, lp, ev, ck, tm, sp, sv>>

(***************************************************************************)
(* Bounds of the model.                                                    *)
(***************************************************************************)
MaxCheckpoints == 2     \* the loop is explored up to this checkpoint index
MaxPatience == 2        \* largest max_num_checkpoint_not_improved drawn
MaxMetric == 2          \* the metric values _evaluate returns are 1..MaxMetric or +infinity
MaxFloat == 4           \* the finite floats are 0..MaxFloat

None == -1              \* Python's None for the Optional[int] settings (all others are >= 0)

(***************************************************************************)
(* Floats: 0..MaxFloat, +infinity or nan.                                  *)
(***************************************************************************)
Inf == MaxFloat + 1
NaN == MaxFloat + 2

IsFinite(x) == x < Inf

\* a < b on floats: every comparison with nan is false
FloatLess(a, b) == a # NaN /\ b # NaN /\ a < b

FloatLessEq(a, b) == a # NaN /\ b # NaN /\ a <= b

\* abs(a - b) on floats: inf - inf is nan, inf - finite is inf
FloatAbsDiff(a, b) ==
    IF a = NaN \/ b = NaN THEN NaN
    ELSE IF a = Inf /\ b = Inf THEN NaN
    ELSE IF a = Inf \/ b = Inf THEN Inf
    ELSE IF a >= b THEN a - b ELSE b - a

(***************************************************************************)
(* Metrics (sockeye.constants, sockeye.utils).                             *)
(***************************************************************************)
PERPLEXITY == "perplexity"
ACCURACY == "accuracy"
BLEU == "bleu"

METRIC_MAXIMIZE(metric) == metric \in {ACCURACY, BLEU}

\* the metrics computed by the external evaluator (CheckpointDecoder)
METRICS_REQUIRING_DECODER == {BLEU}

METRIC_WORST(metric) == IF METRIC_MAXIMIZE(metric) THEN 0 ELSE Inf

metric_value_is_better(new, old, metric) ==
    IF METRIC_MAXIMIZE(metric) THEN FloatLess(old, new) ELSE FloatLess(new, old)

(***************************************************************************)
(* TrainState.__init__                                                     *)
(***************************************************************************)
TrainState(early_stopping_metric) ==
    [num_not_improved |-> 0,
     epoch |-> 0,
     checkpoint |-> 0,
     best_checkpoint |-> 0,
     batches |-> 0,
     updates |-> 0,
     samples |-> 0,
     metrics |-> <<>>,
     early_stopping_metric |-> early_stopping_metric,
     best_metric |-> METRIC_WORST(early_stopping_metric),
     best_metric_history |-> <<METRIC_WORST(early_stopping_metric)>>,
     converged |-> FALSE,
     diverged |-> FALSE]

NoState == [none |-> TRUE]

NoFit == [status |-> "none"]

(***************************************************************************)
(* The training source (data_io.BaseParallelSampleIter): an epoch is the   *)
(* sequence env.data of batches, each with its number of samples; the      *)
(* cursor counts the batches of the epoch already handed out.              *)
(***************************************************************************)
EpochLen == 2

BatchSamples == 1..2

\* the training data of a run: one epoch of batches of equal size, or of sizes 2, 1, 2, ...
Datas == {[i \in 1..EpochLen |-> 1], [i \in 1..EpochLen |-> 1 + (i % 2)]}

iter_batch(data, cursor) == data[cursor + 1]      \* next(): the batch handed out

iter_next(data, cursor) == cursor < Len(data)     \* iter_next(): more batches in this epoch

iter_reset == 0                                    \* reset(): back to the first batch

iter_save_state(cursor) == cursor                 \* save_state(fname)

iter_load_state(saved) == saved                   \* load_state(fname)

(***************************************************************************)
(* _step, on the Ledger: lines 322, 324, 345, 347.                         *)
(***************************************************************************)
\* a variant that applies the update on the first batch of a group instead of the last
step_applies_update_early(update_interval, batches) ==
    update_interval = 1 \/ batches % update_interval = 1

step_applies_update(update_interval, batches) ==
    update_interval = 1 \/ batches % update_interval = 0

step(st, samples, update_interval) ==
    LET batches == st.batches + 1
        updates == IF step_applies_update(update_interval, batches)
                   THEN st.updates + 1 ELSE st.updates
    IN  [st EXCEPT !.batches = batches, !.updates = updates, !.samples = st.samples + samples]

(***************************************************************************)
(* _determine_improvement.  val_metrics is a sequence of [name, value].    *)
(* improvement_check is the authoritative comparison (lines 432-434),      *)
(* improvement_apply lines 438-443 for one metric of the loop,             *)
(* improvement_finish lines 445-453.                                       *)
(***************************************************************************)
improvement_check(st, value) ==
    metric_value_is_better(value, st.best_metric, st.early_stopping_metric)

\* a variant that records every value as the best one
improvement_apply_always(st, value, value_is_better) ==
    [st EXCEPT !.best_metric = value, !.best_checkpoint = st.checkpoint,
               !.num_not_improved = IF value_is_better THEN 0 ELSE @]

improvement_apply(st, value, value_is_better) ==
    IF value_is_better
    THEN [st EXCEPT !.best_metric = value,
                    !.best_checkpoint = st.checkpoint,
                    !.num_not_improved = 0]
    ELSE st

\* a variant whose window is one checkpoint shorter
history_append_short(history, best_metric, patience) ==
    LET h == Append(history, best_metric)
    IN  IF patience # None /\ Len(h) > patience THEN Tail(h) ELSE h

history_append(history, best_metric, patience) ==
    LET h == Append(history, best_metric)
    IN  IF patience # None /\ Len(h) > patience + 1 THEN Tail(h) ELSE h

improvement_finish(st, value_is_better, patience) ==
    LET s1 == IF ~value_is_better
              THEN [st EXCEPT !.num_not_improved = st.num_not_improved + 1]
              ELSE st
    IN  [s1 EXCEPT !.best_metric_history =
                       history_append(s1.best_metric_history, s1.best_metric, patience)]

\* the for loop of lines 419-443 without Horovod: [st, found, better] after the first n metrics
RECURSIVE improvement_loop(_, _, _)
improvement_loop(st, val_metrics, n) ==
    IF n = 0 THEN [st |-> st, found |-> FALSE, better |-> FALSE]
    ELSE LET r == improvement_loop(st, val_metrics, n - 1)
             m == val_metrics[n]
         IN  IF m.name = st.early_stopping_metric
             THEN LET better == improvement_check(r.st, m.value)
                  IN  [st |-> improvement_apply(r.st, m.value, better),
                       found |-> TRUE, better |-> better]
             ELSE r

\* a variant without the assertion of line 444
determine_improvement_unasserted(st, val_metrics, patience) ==
    LET r == improvement_loop(st, val_metrics, Len(val_metrics))
    IN  [st |-> improvement_finish(r.st, r.better, patience),
         has_improved |-> r.better, failed |-> FALSE]

\* [st, has_improved, failed]: failed is the assertion of line 444
determine_improvement(st, val_metrics, patience) ==
    LET r == improvement_loop(st, val_metrics, Len(val_metrics))
    IN  IF ~r.found
        THEN [st |-> r.st, has_improved |-> FALSE, failed |-> TRUE]
        ELSE [st |-> improvement_finish(r.st, r.better, patience),
              has_improved |-> r.better, failed |-> FALSE]

(***************************************************************************)
(* _determine_convergence: the minimums (lines 463-476), the window guard  *)
(* (478-480), the window improvement (485) and the threshold test (490).   *)
(***************************************************************************)
\* a variant that does not look at min_epochs
minimums_met_but_epochs(st, cfg) ==
    /\ ~(cfg.min_samples # None /\ st.samples < cfg.min_samples)
    /\ ~(cfg.min_updates # None /\ st.updates < cfg.min_updates)

minimums_met(st, cfg) ==
    /\ ~(cfg.min_samples # None /\ st.samples < cfg.min_samples)
    /\ ~(cfg.min_updates # None /\ st.updates < cfg.min_updates)
    /\ ~(cfg.min_epochs # None /\ st.epoch < cfg.min_epochs)

window_open(st, cfg) ==
    /\ cfg.max_num_checkpoint_not_improved # None
    /\ 0 <= cfg.max_num_checkpoint_not_improved
    /\ st.checkpoint >= cfg.max_num_checkpoint_not_improved

window_improvement(st) == FloatAbsDiff(st.best_metric, st.best_metric_history[1])

determine_convergence(st, cfg) ==
    /\ minimums_met(st, cfg)
    /\ window_open(st, cfg)
    /\ FloatLessEq(window_improvement(st), cfg.checkpoint_improvement_threshold)

(***************************************************************************)
(* _determine_divergence                                                   *)
(***************************************************************************)
RECURSIVE last_perplexity(_, _)
last_perplexity(val_metrics, i) ==
    IF i > Len(val_metrics) THEN NaN
    ELSE IF val_metrics[i].name = PERPLEXITY THEN val_metrics[i].value
    ELSE last_perplexity(val_metrics, i + 1)

\* a variant whose threshold is already crossed at 2 * vocab_target_size
determine_divergence_at_bound(val_metrics, vocab_target_size) ==
    LET last_ppl == last_perplexity(val_metrics, 1)
    IN  ~IsFinite(last_ppl) \/ FloatLessEq(2 * vocab_target_size, last_ppl)

determine_divergence(val_metrics, vocab_target_size) ==
    LET last_ppl == last_perplexity(val_metrics, 1)
    IN  ~IsFinite(last_ppl) \/ FloatLess(2 * vocab_target_size, last_ppl)

(***************************************************************************)
(* TrainerConfig.  A fit call draws its stopping criteria: a patience and  *)
(* at most one budget; the intervals and the metric are those of env.      *)
(***************************************************************************)
TrainerConfig(e) ==
    [early_stopping_metric |-> e.early_stopping_metric,
     checkpoint_interval |-> e.checkpoint_interval,
     update_interval |-> e.update_interval,
     max_num_checkpoint_not_improved |-> None,
     checkpoint_improvement_threshold |-> 0,
     max_checkpoints |-> None,
     min_samples |-> None,
     max_samples |-> None,
     min_updates |-> None,
     max_updates |-> None,
     min_epochs |-> None,
     max_epochs |-> None,
     max_seconds |-> None]

Patiences == {None} \cup (0..MaxPatience)

Budgets == {<<"max_updates", 3>>, <<"max_epochs", 1>>, <<"max_samples", 3>>, <<"max_seconds", 1>>}

FitConfigs(e) ==
    {[TrainerConfig(e) EXCEPT !.max_num_checkpoint_not_improved = p] : p \in Patiences}
    \cup {[TrainerConfig(e) EXCEPT ![b[1]] = b[2]] : b \in Budgets}

NoConfig == [none |-> TRUE]

MetricValues == (1..MaxMetric) \cup {Inf}

(***************************************************************************)
(* The output location.  Each of the three state directories is absent, a  *)
(* complete snapshot, partial (some of its files written or removed) or    *)
(* empty.  The training state directory holds the snapshot fit loads; of   *)
(* the temporary and the to-be-deleted directory, which are never read,    *)
(* the model keeps the generation: the checkpoint of the params link.      *)
(***************************************************************************)
Absent == [kind |-> "absent"]
Partial == [kind |-> "partial"]
Empty == [kind |-> "empty"]

\* what _save_training_state stages: (1) the params link, (3) the iterator, (5) the Ledger
Snapshot(st, cursor, seen) ==
    [kind |-> "snapshot", state |-> st, iter |-> iter_save_state(cursor), params |-> st.checkpoint,
     seen |-> seen]

\* a snapshot directory that is written or renamed aside but not read
Generation(st) == [kind |-> "snapshot", params |-> st.checkpoint]

\* a variant that restores the Ledger but leaves the iterator at the start of its data
load_training_state_rewound(dir) == [state |-> dir.state, iter |-> iter_reset]

\* a variant that restores the Ledger with its count of updates lost
load_training_state_no_updates(dir) ==
    [state |-> [dir.state EXCEPT !.updates = 0], iter |-> iter_load_state(dir.iter)]

\* _load_training_state: the Ledger and the iterator cursor of the snapshot
load_training_state(dir) == [state |-> dir.state, iter |-> iter_load_state(dir.iter)]

Exists(dir) == dir.kind # "absent"

NonEmptyDir(dir) == dir.kind \in {"snapshot", "partial"}

(***************************************************************************)
(* One pass of the body of the while loop of fit, lines 225-264, on the    *)
(* Ledger and the iterator; value is what _evaluate returns for the        *)
(* early-stopping metric if this pass reaches a checkpoint boundary.       *)
(***************************************************************************)
\* a variant that counts the checkpoint interval in batches
checkpoint_due_in_batches(st, cfg) ==
    st.updates > 0 /\ st.batches % cfg.checkpoint_interval = 0

checkpoint_due(st, cfg) ==
    st.updates > 0 /\ st.batches % (cfg.checkpoint_interval * cfg.update_interval) = 0

val_metrics_of(value) == <<[name |-> PERPLEXITY, value |-> value]>>

checkpoint_decisions(st, cfg, vocab_target_size, val_metrics) ==
    LET s1 == [st EXCEPT !.checkpoint = st.checkpoint + 1]
        r  == determine_improvement(s1, val_metrics, cfg.max_num_checkpoint_not_improved)
        s2 == [r.st EXCEPT !.converged = determine_convergence(r.st, cfg)]
        s3 == [s2 EXCEPT !.diverged = determine_divergence(val_metrics, vocab_target_size)]
    IN  [state |-> IF r.failed THEN r.st ELSE s3, has_improved |-> r.has_improved,
         failed |-> r.failed]

loop_body(st, cursor, cfg, e, value) ==
    LET s1 == step(st, iter_batch(e.data, cursor), cfg.update_interval)
        c1 == cursor + 1
        more == iter_next(e.data, c1)
        s2 == IF more THEN s1 ELSE [s1 EXCEPT !.epoch = s1.epoch + 1]
        c2 == IF more THEN c1 ELSE iter_reset
        due == checkpoint_due(s2, cfg)
        d  == checkpoint_decisions(s2, cfg, e.vocab_target_size, val_metrics_of(value))
    IN  [state |-> IF due THEN d.state ELSE s2, iter |-> c2, due |-> due,
         failed |-> due /\ d.failed]

\* a variant that tests the sample budget for equality, as the other two budgets
budget_reached_exactly(st, cfg) ==
    \/ cfg.max_epochs # None /\ st.epoch = cfg.max_epochs
    \/ cfg.max_updates # None /\ st.updates = cfg.max_updates
    \/ cfg.max_samples # None /\ st.samples = cfg.max_samples

\* the stop conditions at the head of the loop, lines 213-223
budget_reached(st, cfg) ==
    \/ cfg.max_epochs # None /\ st.epoch = cfg.max_epochs
    \/ cfg.max_updates # None /\ st.updates = cfg.max_updates
    \/ cfg.max_samples # None /\ st.samples >= cfg.max_samples

\* a variant that counts the checkpoints from the start of training, not of this fit
translate_max_checkpoints_absolute(cfg, st) ==
    IF cfg.max_checkpoints # None
    THEN [cfg EXCEPT !.max_updates = cfg.max_checkpoints * cfg.checkpoint_interval]
    ELSE cfg

\* lines 203-204: max_checkpoints becomes max_updates
translate_max_checkpoints(cfg, st) ==
    IF cfg.max_checkpoints # None
    THEN [cfg EXCEPT !.max_updates = st.updates + cfg.max_checkpoints * cfg.checkpoint_interval]
    ELSE cfg

\* line 556: the record of this checkpoint joins the metrics history
write_metrics(st) == [st EXCEPT !.metrics = Append(st.metrics, st.checkpoint)]

(***************************************************************************)
(* Spec: one process.                                                      *)
(***************************************************************************)
auxvars == <<ck, tm, sp, sv>>

smallvars == <<pf, cv, lp, ev, auxvars>>

othervars == <<hvd, sh, smallvars>>

fitvars == <<env, config, state, iter, resume_training, pc, disk, valSeq, nsteps, nsamples, last_fit>>

Running == {"loop", "save", "staged", "moved", "published"}

Envs ==
    [early_stopping_metric : {PERPLEXITY},
     update_interval : 1..2,
     checkpoint_interval : 1..2,
     vocab_target_size : {1},
     data : Datas]

InitFit ==
    /\ env \in Envs
    /\ config = NoConfig
    /\ state = NoState
    /\ iter = 0
    /\ resume_training = FALSE
    /\ pc = "idle"
    /\ disk = [training_state |-> Absent, temp |-> Absent, delete |-> Absent]
    /\ valSeq = <<>>
    /\ nsteps = 0
    /\ nsamples = 0
    /\ last_fit = NoFit

\* fit, lines 189-210: resume from the snapshot if the training state directory exists,
\* else a new Ledger.  The caller hands a train_iter at its first batch.
Fit ==
    /\ pc \in {"idle", "returned"}
    /\ \E c \in FitConfigs(env) :
          LET resume == Exists(disk.training_state)
              loaded == load_training_state(disk.training_state)
              st == IF resume THEN loaded.state ELSE TrainState(c.early_stopping_metric)
          IN  /\ resume_training' = resume
              /\ state' = st
              /\ iter' = IF resume THEN loaded.iter ELSE 0
              /\ config' = translate_max_checkpoints(c, st)
    /\ pc' = "loop"
    /\ valSeq' = IF Exists(disk.training_state) THEN disk.training_state.seen ELSE <<>>
    /\ nsteps' = 0
    /\ nsamples' = 0
    /\ UNCHANGED <<env, disk, last_fit, othervars>>

\* lines 213-223 and 285-292: a budget is reached, fit returns the Ledger
LoopStop ==
    /\ pc = "loop"
    /\ budget_reached(state, config)
    /\ pc' = "returned"
    /\ last_fit' = [status |-> "budget", state |-> state]
    /\ UNCHANGED <<env, config, state, iter, resume_training, disk, valSeq, nsteps, nsamples,
                   othervars>>

\* lines 225-268: one batch, and the decisions of the checkpoint if it is a boundary
LoopStep ==
    /\ pc = "loop"
    /\ ~budget_reached(state, config)
    /\ state.checkpoint < MaxCheckpoints
    /\ \E value \in MetricValues :
          LET r == loop_body(state, iter, config, env, value)
          IN  /\ state' = r.state
              /\ iter' = r.iter
              /\ pc' = IF r.due THEN "save" ELSE "loop"
              /\ valSeq' = IF r.due THEN Append(valSeq, value) ELSE valSeq
    /\ nsteps' = IF resume_training THEN nsteps ELSE nsteps + 1
    /\ nsamples' = IF resume_training THEN nsamples ELSE nsamples + iter_batch(env.data, iter)
    /\ last_fit' = NoFit
    /\ UNCHANGED <<env, config, resume_training, disk, othervars>>

\* _save_training_state, lines 595-630: the temporary directory holds the new snapshot
SaveStage ==
    /\ pc = "save"
    /\ disk' = [disk EXCEPT !.temp = Generation(state)]
    /\ pc' = "staged"
    /\ UNCHANGED <<env, config, state, iter, resume_training, valSeq, nsteps, nsamples, last_fit,
                   othervars>>

\* lines 635-637: the published directory is renamed aside.  os.rename onto a
\* directory that is not empty raises, and the exception ends the process.
rename_old(d) ==
    IF ~Exists(d.training_state) THEN [disk |-> d, raised |-> FALSE]
    ELSE IF NonEmptyDir(d.delete) THEN [disk |-> d, raised |-> TRUE]
    ELSE [disk |-> [d EXCEPT !.delete = Generation(d.training_state.state),
                             !.training_state = Absent],
          raised |-> FALSE]

SaveRenameOld ==
    /\ pc = "staged"
    /\ LET r == rename_old(disk)
       IN  /\ disk' = r.disk
           /\ IF r.raised
              THEN /\ pc' = "idle"
                   /\ state' = NoState
                   /\ config' = NoConfig
                   /\ iter' = 0
                   /\ resume_training' = FALSE
                   /\ valSeq' = <<>>
                   /\ nsteps' = 0
                   /\ nsamples' = 0
              ELSE /\ pc' = "moved"
                   /\ UNCHANGED <<state, config, iter, resume_training, valSeq, nsteps, nsamples>>
    /\ UNCHANGED <<env, last_fit, othervars>>

\* a variant that publishes only the snapshots of checkpoints that improved
publish_if_improved(d, st, cursor, seen) ==
    IF st.best_checkpoint = st.checkpoint
    THEN [d EXCEPT !.training_state = Snapshot(st, cursor, seen), !.temp = Absent]
    ELSE [d EXCEPT !.temp = Absent]

\* line 638: the temporary directory, which holds what lines 600-630 staged from
\* the Ledger and the iterator, is renamed to the training state directory
publish(d, st, cursor, seen) ==
    [d EXCEPT !.training_state = Snapshot(st, cursor, seen), !.temp = Absent]

SavePublish ==
    /\ pc = "moved"
    /\ disk' = publish(disk, state, iter, valSeq)
    /\ pc' = "published"
    /\ UNCHANGED <<env, config, state, iter, resume_training, valSeq, nsteps, nsamples, last_fit,
                   othervars>>

\* lines 639-647 and 271-283: the old generation is removed, the metrics record
\* written, and the loop ends on the time budget (the clock decides time_up),
\* convergence or divergence
SaveFinish ==
    /\ pc = "published"
    /\ disk' = [disk EXCEPT !.delete = Absent]
    /\ state' = write_metrics(state)
    /\ \E time_up \in BOOLEAN :
          LET stop == \/ config.max_seconds # None /\ time_up
                      \/ state.converged
                      \/ state.diverged
          IN  /\ pc' = IF stop THEN "returned" ELSE "loop"
              /\ last_fit' = IF stop THEN [status |-> "checkpoint", state |-> state'] ELSE NoFit
    /\ UNCHANGED <<env, config, iter, resume_training, valSeq, nsteps, nsamples, othervars>>

\* the process is interrupted: what it held in memory is gone, the disk stays
Interrupted ==
    /\ pc' = "idle"
    /\ state' = NoState
    /\ config' = NoConfig
    /\ iter' = 0
    /\ resume_training' = FALSE
    /\ valSeq' = <<>>
    /\ nsteps' = 0
    /\ nsamples' = 0
    /\ last_fit' = NoFit
    /\ UNCHANGED <<env, othervars>>

Crash ==
    /\ pc \in Running
    /\ Interrupted
    /\ UNCHANGED disk

\* interrupted while staging: some files of the temporary directory are written
CrashStaging ==
    /\ pc = "save"
    /\ Interrupted
    /\ disk' = [disk EXCEPT !.temp = Partial]

\* interrupted inside shutil.rmtree: some or all files of the old generation are removed
CrashDeleting ==
    /\ pc = "published"
    /\ Exists(disk.delete)
    /\ Interrupted
    /\ \E d \in {Partial, Empty} : disk' = [disk EXCEPT !.delete = d]

\* the other specifications leave these alone
NoHvd == [using_horovod |-> FALSE]

NoShards == [pc |-> "none"]

NoCall == [fn |-> "none"]

NoWindow == [pc |-> "none"]

NoLoop == [pc |-> "none"]

NoEval == [pc |-> "none"]

NoArtifacts == [pc |-> "none"]

NoClock == [pc |-> "none"]

NoSpeed == [pc |-> "none"]

NoSave == [pc |-> "none"]

AuxUnused ==
    /\ ck = NoArtifacts
    /\ tm = NoClock
    /\ sp = NoSpeed
    /\ sv = NoSave

SmallUnused ==
    /\ pf = NoCall
    /\ cv = NoWindow
    /\ lp = NoLoop
    /\ ev = NoEval
    /\ AuxUnused

Init ==
    /\ InitFit
    /\ hvd = NoHvd
    /\ sh = NoShards
    /\ SmallUnused

Next ==
    \/ Fit
    \/ LoopStop
    \/ LoopStep
    \/ SaveStage
    \/ SaveRenameOld
    \/ SavePublish
    \/ SaveFinish
    \/ Crash
    \/ CrashStaging
    \/ CrashDeleting

Spec == Init /\ [][Next]_vars

(***************************************************************************)
(* Properties of Spec.                                                     *)
(***************************************************************************)
HasLedger == pc \in Running \cup {"returned"}

\* the Ledger and the iterator of a run that was never stopped, after n batches,
\* given the values _evaluate returned at its checkpoints
RECURSIVE uninterrupted(_, _, _, _)
uninterrupted(n, cfg, e, seen) ==
    IF n = 0 THEN [state |-> TrainState(cfg.early_stopping_metric), iter |-> 0]
    ELSE LET p == uninterrupted(n - 1, cfg, e, seen)
             k == p.state.checkpoint + 1
             value == IF k <= Len(seen) THEN seen[k] ELSE Inf
         IN  loop_body(p.state, p.iter, cfg, e, value)

Counters(st) ==
    [batches |-> st.batches, updates |-> st.updates, samples |-> st.samples, epoch |-> st.epoch,
     checkpoint |-> st.checkpoint, best_checkpoint |-> st.best_checkpoint]

StartCounters(st) ==
    [epoch |-> st.epoch, batches |-> st.batches, updates |-> st.updates, samples |-> st.samples]

\* C1: in a fit started fresh, after N successful steps the Ledger has batches = N,
\* samples = the sum of the N batches' sample counts and updates = floor(N / update_interval).
C1_StepCounters ==
    (HasLedger /\ ~resume_training) =>
        /\ state.batches = nsteps
        /\ state.samples = nsamples
        /\ state.updates = nsteps \div config.update_interval

C1_Witness ==
    /\ pc = "loop"
    /\ ~resume_training
    /\ config.update_interval = 2
    /\ nsteps = 3
    /\ state.updates = 1
    /\ state.samples = 5

\* C2: a fit that resumed from a snapshot has, at every batch count it reaches, the
\* counters (batches, updates, samples, epoch, checkpoint, best_checkpoint) of a run
\* that was never stopped, for the same batches and the same metric values.
C2_ResumeEquivalent ==
    (HasLedger /\ resume_training) =>
        Counters(state) = Counters(uninterrupted(state.batches, config, env, valSeq).state)

C2_Witness ==
    /\ pc = "loop"
    /\ resume_training
    /\ state.checkpoint = 2
    /\ state.best_checkpoint = 2
    /\ state.metrics = <<2>>
    /\ state.epoch >= 1

\* C3, as claimed: a fit call that follows a fit that returned on a budget stop at the
\* loop head starts with the epoch, batches, updates and samples of the Ledger returned.
C3_ContinuesWhereReturned ==
    (pc = "loop" /\ last_fit.status = "budget") =>
        StartCounters(state) = StartCounters(last_fit.state)

\* C3, amended: that fit call starts with the counters of the snapshot in the training
\* state directory (those of the last checkpoint that published one), or with a new
\* Ledger if there is none; they are the counters returned exactly when no batch was
\* processed after that snapshot.
C3_ContinuesFromSnapshot ==
    (pc = "loop" /\ last_fit.status = "budget") =>
        LET from == IF Exists(disk.training_state) THEN disk.training_state.state
                    ELSE TrainState(config.early_stopping_metric)
        IN  /\ StartCounters(state) = StartCounters(from)
            /\ resume_training = Exists(disk.training_state)
            /\ (StartCounters(state) = StartCounters(last_fit.state))
                   = (last_fit.state.batches = from.batches)

C3_Witness ==
    /\ pc = "loop"
    /\ last_fit.status = "budget"
    /\ resume_training
    /\ config.checkpoint_interval = 2
    /\ last_fit.state.updates = 3
    /\ state.updates = 2

\* C4, as claimed: once a snapshot has been published, a fit call finds a snapshot in
\* the training state directory and resumes from it; it never starts fresh.
C4_NeverStartsFresh ==
    [][(pc \in {"idle", "returned"} /\ pc' = "loop"
            /\ (Exists(disk.training_state) \/ Exists(disk.delete)))
        => (resume_training' /\ disk.training_state.kind = "snapshot")]_vars

\* C5: after a checkpoint boundary has completed, the snapshot in the training state
\* directory carries the checkpoint index, the converged flag and the diverged flag
\* of the Ledger in memory.
C5_SnapshotCurrent ==
    (pc \in {"loop", "returned"} /\ state.checkpoint >= 1) =>
        /\ disk.training_state.kind = "snapshot"
        /\ disk.training_state.state.checkpoint = state.checkpoint
        /\ disk.training_state.state.converged = state.converged
        /\ disk.training_state.state.diverged = state.diverged

C5_Witness ==
    /\ pc = "returned"
    /\ ~resume_training
    /\ state.checkpoint = 2
    /\ state.best_checkpoint = 1
    /\ state.converged
    /\ ~state.diverged

\* C9, as claimed: for every configured patience, in every state,
\* len(best_metric_history) <= patience + 1.
C9_HistoryBounded ==
    (HasLedger /\ config.max_num_checkpoint_not_improved # None) =>
        Len(state.best_metric_history) <= config.max_num_checkpoint_not_improved + 1

(***************************************************************************)
(* SpecHvd: the decisions of a checkpoint under Horovod.  Every worker     *)
(* runs fit on its own data; trainer.step synchronises the workers at      *)
(* every update, so all workers reach a checkpoint boundary together       *)
(* (HvdTrain); each then runs _determine_improvement (HvdImprove) and      *)
(* _determine_convergence (HvdConverge) on its own Ledger and its own      *)
(* metric value.  MPI.COMM_WORLD.bcast(x, root=0) returns x at rank 0      *)
(* once the message is handed to the library and, at another rank, blocks  *)
(* until the next message of rank 0 arrives: the calls of a rank match     *)
(* the broadcasts of rank 0 in order.  Without Horovod there is only       *)
(* worker 0 and no broadcast.                                              *)
(***************************************************************************)
NumWorkers == 2

MaxRounds == 2

Ranks(using_horovod) == IF using_horovod THEN 0..(NumWorkers - 1) ELSE {0}

HvdEnv(metric) ==
    [early_stopping_metric |-> metric, update_interval |-> 1, checkpoint_interval |-> 1,
     vocab_target_size |-> 1, data |-> <<1>>]

Minimums == {<<"min_samples", None>>, <<"min_samples", 2>>}

HvdConfigs ==
    {[TrainerConfig(HvdEnv(metric)) EXCEPT !.max_num_checkpoint_not_improved = p, ![m[1]] = m[2]] :
        metric \in {PERPLEXITY, ACCURACY}, p \in 0..1, m \in Minimums}

\* the metric values a worker can evaluate to: the workers differ slightly
HvdValues == {1, 2}

\* Python's truth value of a number, and a bool as the number it is
Truthy(x) == x # 0

BoolNum(b) == IF b THEN 1 ELSE 0

authoritative(using_horovod, rank) == ~using_horovod \/ rank = 0

\* bcast at the root: the message reaches the channel of every other rank
bcast_send(chan, msg) == [r \in DOMAIN chan |-> IF r = 0 THEN chan[r] ELSE Append(chan[r], msg)]

\* bcast at another rank: the oldest message of rank 0 not yet received
bcast_recv(chan, rank) == [chan EXCEPT ![rank] = Tail(chan[rank])]

InitHvd ==
    \E using_horovod \in BOOLEAN, cfg \in HvdConfigs :
        hvd = [using_horovod |-> using_horovod,
               config |-> cfg,
               w |-> [r \in Ranks(using_horovod) |->
                        [pc |-> "ready", state |-> TrainState(cfg.early_stopping_metric),
                         value |-> 0, has_improved |-> FALSE]],
               chan |-> [r \in Ranks(using_horovod) |-> <<>>]]

\* fit, lines 225-258: every worker has processed the batches up to the next
\* checkpoint boundary (its own number of samples) and evaluated on its own
HvdTrain ==
    /\ hvd # NoHvd
    /\ \A r \in DOMAIN hvd.w : hvd.w[r].pc = "ready" /\ hvd.w[r].state.checkpoint < MaxRounds
    /\ \E samples \in [DOMAIN hvd.w -> BatchSamples], values \in [DOMAIN hvd.w -> HvdValues] :
          hvd' = [hvd EXCEPT !.w = [r \in DOMAIN hvd.w |->
                     [pc |-> "improve",
                      state |-> [step(hvd.w[r].state, samples[r], hvd.config.update_interval)
                                    EXCEPT !.checkpoint = @ + 1],
                      value |-> values[r],
                      has_improved |-> hvd.w[r].has_improved]]]
    /\ UNCHANGED <<fitvars, sh, smallvars>>

\* _determine_improvement at one worker, lines 417-455
hvd_improve(h, r) ==
    LET w == h.w[r]
        own == authoritative(h.using_horovod, r)
        better == IF own THEN improvement_check(w.state, w.value) ELSE Truthy(Head(h.chan[r]))
        st == improvement_finish(improvement_apply(w.state, w.value, better), better,
                                 h.config.max_num_checkpoint_not_improved)
    IN  [h EXCEPT !.w[r] = [pc |-> "converge", state |-> st, value |-> w.value,
                            has_improved |-> better],
                  !.chan = IF ~h.using_horovod THEN h.chan
                           ELSE IF r = 0 THEN bcast_send(h.chan, BoolNum(better))
                           ELSE bcast_recv(h.chan, r)]

HvdImprove(r) ==
    /\ hvd # NoHvd
    /\ r \in DOMAIN hvd.w
    /\ hvd.w[r].pc = "improve"
    /\ authoritative(hvd.using_horovod, r) \/ hvd.chan[r] # <<>>
    /\ hvd' = hvd_improve(hvd, r)
    /\ UNCHANGED <<fitvars, sh, smallvars>>

\* _determine_convergence at one worker, lines 463-499: whether it reaches the broadcast
joins_broadcast(h, r) ==
    /\ h.using_horovod
    /\ minimums_met(h.w[r].state, h.config)
    /\ window_open(h.w[r].state, h.config)

hvd_converge(h, r) ==
    LET w == h.w[r]
        joins == joins_broadcast(h, r)
        own == authoritative(h.using_horovod, r)
        improvement == IF own THEN window_improvement(w.state) ELSE Head(h.chan[r])
        converged == /\ minimums_met(w.state, h.config)
                     /\ window_open(w.state, h.config)
                     /\ FloatLessEq(improvement, h.config.checkpoint_improvement_threshold)
    IN  [h EXCEPT !.w[r] = [pc |-> IF converged THEN "stopped" ELSE "ready",
                            state |-> [w.state EXCEPT !.converged = converged],
                            value |-> w.value, has_improved |-> w.has_improved],
                  !.chan = IF ~joins THEN h.chan
                           ELSE IF r = 0 THEN bcast_send(h.chan, improvement)
                           ELSE bcast_recv(h.chan, r)]

HvdConverge(r) ==
    /\ hvd # NoHvd
    /\ r \in DOMAIN hvd.w
    /\ hvd.w[r].pc = "converge"
    /\ (joins_broadcast(hvd, r) /\ r # 0) => hvd.chan[r] # <<>>
    /\ hvd' = hvd_converge(hvd, r)
    /\ UNCHANGED <<fitvars, sh, smallvars>>

FitUnused ==
    /\ env = HvdEnv(PERPLEXITY)
    /\ config = NoConfig
    /\ state = NoState
    /\ iter = 0
    /\ resume_training = FALSE
    /\ pc = "idle"
    /\ disk = [training_state |-> Absent, temp |-> Absent, delete |-> Absent]
    /\ valSeq = <<>>
    /\ nsteps = 0
    /\ nsamples = 0
    /\ last_fit = NoFit

InitHvdSpec ==
    /\ FitUnused
    /\ InitHvd
    /\ sh = NoShards
    /\ SmallUnused

NextHvd ==
    \/ HvdTrain
    \/ \E r \in 0..(NumWorkers - 1) : HvdImprove(r)
    \/ \E r \in 0..(NumWorkers - 1) : HvdConverge(r)

SpecHvd == InitHvdSpec /\ [][NextHvd]_vars

(***************************************************************************)
(* Properties of SpecHvd                                                   *)
(***************************************************************************)
HvdImproved(r) ==
    /\ r \in DOMAIN hvd.w
    /\ hvd.w[r].pc = "improve"
    /\ hvd'.w[r].pc = "converge"

hvd_not_worse(new, old, metric) == new = old \/ metric_value_is_better(new, old, metric)

hvd_left_unimproved(r) ==
    /\ hvd'.w[r].state.best_metric = hvd.w[r].state.best_metric
    /\ hvd'.w[r].state.best_checkpoint = hvd.w[r].state.best_checkpoint
    /\ hvd'.w[r].state.num_not_improved = hvd.w[r].state.num_not_improved + 1

hvd_all_decided ==
    /\ hvd # NoHvd
    /\ \A r \in DOMAIN hvd.w : hvd.w[r].pc \in {"ready", "stopped"} /\ hvd.w[r].state.checkpoint >= 1

\* C6: once rank 0 and another worker have both run _determine_improvement for a
\* checkpoint, the has_improved the worker used is the comparison rank 0 made.
C6_AllAdoptRankZero ==
    hvd # NoHvd =>
        \A r \in DOMAIN hvd.w :
            (hvd.w[r].pc # "improve" /\ hvd.w[0].pc # "improve") =>
                hvd.w[r].has_improved = hvd.w[0].has_improved

\* C7: at every checkpoint every worker's _determine_convergence returns the decision
\* of rank 0: no worker waits for a broadcast rank 0 never started, no broadcast of
\* rank 0 is left unreceived, and all workers hold the same converged flag.
C7_AllReturnRankZeroDecision ==
    hvd # NoHvd =>
        /\ \A r \in DOMAIN hvd.w :
              (hvd.w[r].pc = "converge" /\ hvd.w[0].pc \in {"ready", "stopped"}) =>
                  (joins_broadcast(hvd, r) => hvd.chan[r] # <<>>)
        /\ hvd_all_decided =>
              \A r \in DOMAIN hvd.w :
                  /\ hvd.chan[r] = <<>>
                  /\ hvd.w[r].state.converged = hvd.w[0].state.converged

MaxShards == 2

MaxBatches == 4

ShardIdle(n, update_interval) ==
    [pc |-> "idle", n |-> n, update_interval |-> update_interval,
     batches |-> 0, updates |-> 0, samples |-> 0, optimizer_steps |-> 0,
     grad |-> 0, consumed |-> 0, step_batch |-> 0,
     entry |-> [batches |-> 0, updates |-> 0, samples |-> 0, optimizer_steps |-> 0],
     task |-> [i \in 1..n |-> "unsent"], out |-> <<>>, got |-> 0]

InitShards == \E n \in 1..MaxShards, update_interval \in 1..2 : sh = ShardIdle(n, update_interval)

\* a variant that applies the optimizer step before the shards are computed
step_begin_eager(s) ==
    LET due == step_applies_update(s.update_interval, s.batches + 1)
    IN  [s EXCEPT !.pc = "put", !.batches = @ + 1,
                  !.optimizer_steps = IF due THEN @ + 1 ELSE @,
                  !.updates = IF due THEN @ + 1 ELSE @,
                  !.entry = [batches |-> s.batches, updates |-> s.updates,
                         samples |-> s.samples, optimizer_steps |-> s.optimizer_steps],
                  !.task = [i \in 1..s.n |-> "unsent"], !.out = <<>>, !.got = 0]

\* a variant that does not count the batch when _step is entered
step_begin_uncounted(s) ==
    [s EXCEPT !.pc = "put",
              !.entry = [batches |-> s.batches, updates |-> s.updates,
                         samples |-> s.samples, optimizer_steps |-> s.optimizer_steps],
              !.task = [i \in 1..s.n |-> "unsent"], !.out = <<>>, !.got = 0]

\* _step, line 322: the batch is counted before anything is computed
step_begin(s) ==
    [s EXCEPT !.pc = "put", !.batches = @ + 1,
              !.entry = [batches |-> s.batches, updates |-> s.updates,
                         samples |-> s.samples, optimizer_steps |-> s.optimizer_steps],
              !.task = [i \in 1..s.n |-> "unsent"], !.out = <<>>, !.got = 0]

\* _forward_backward, lines 305-306: the shards are put in order
next_unsent(s) == CHOOSE i \in 1..s.n : s.task[i] = "unsent" /\ \A j \in 1..(i - 1) : s.task[j] # "unsent"

forward_backward_put(s) ==
    LET i == next_unsent(s)
    IN  [s EXCEPT !.task[i] = "queued", !.pc = IF i = s.n THEN "get" ELSE "put"]

\* the dispatcher runs a task: it returns its loss outputs or raises
parallel_run(s, i, outcome) == [s EXCEPT !.task[i] = outcome, !.out = Append(@, i)]

\* a variant of get that takes the first result for the results of all shards
parallel_get_first(s) ==
    LET i == Head(s.out)
    IN  IF s.task[i] = "raised"
        THEN [s EXCEPT !.pc = "raised", !.out = Tail(@)]
        ELSE [s EXCEPT !.out = Tail(@), !.got = @ + 1, !.pc = "collected"]

\* the dispatcher's get: the oldest completed task; a task that raised raises in the caller
parallel_get(s) ==
    LET i == Head(s.out)
    IN  IF s.task[i] = "raised"
        THEN [s EXCEPT !.pc = "raised", !.out = Tail(@)]
        ELSE [s EXCEPT !.out = Tail(@), !.got = @ + 1,
                       !.pc = IF s.got + 1 = s.n THEN "collected" ELSE "get"]

\* the gradient buffers after the backward passes of one more batch, counted in
\* batches: with update_interval > 1 the gradients are summed (lines 341-343),
\* otherwise each backward pass overwrites them
backward(grad, update_interval) == IF update_interval > 1 THEN grad + 1 ELSE 1

\* a variant that leaves the gradients as they are after the optimizer step
step_finish_no_zero_grad(s) ==
    LET due == step_applies_update(s.update_interval, s.batches)
        grad == backward(s.grad, s.update_interval)
    IN  [s EXCEPT !.pc = "idle",
                  !.optimizer_steps = IF due THEN @ + 1 ELSE @,
                  !.consumed = IF due THEN grad ELSE @,
                  !.step_batch = IF due THEN s.batches ELSE @,
                  !.grad = grad,
                  !.updates = IF due THEN @ + 1 ELSE @,
                  !.samples = @ + s.n]

\* _step, lines 323-347, with the gradients the backward passes of the batch left:
\* the optimizer step (line 325) consumes what is in the buffers, zero_grad (line 344)
\* empties them, and the rest of the counters advance
step_finish(s) ==
    LET due == step_applies_update(s.update_interval, s.batches)
        grad == backward(s.grad, s.update_interval)
    IN  [s EXCEPT !.pc = "idle",
                  !.optimizer_steps = IF due THEN @ + 1 ELSE @,
                  !.consumed = IF due THEN grad ELSE @,
                  !.step_batch = IF due THEN s.batches ELSE @,
                  !.grad = IF due /\ s.update_interval > 1 THEN 0 ELSE grad,
                  !.updates = IF due THEN @ + 1 ELSE @,
                  !.samples = @ + s.n]

ShStep ==
    /\ sh.pc = "idle"
    /\ sh.batches < MaxBatches
    /\ sh' = step_begin(sh)
    /\ UNCHANGED <<fitvars, hvd, smallvars>>

ShPut ==
    /\ sh.pc = "put"
    /\ sh' = forward_backward_put(sh)
    /\ UNCHANGED <<fitvars, hvd, smallvars>>

ShRun(i) ==
    /\ sh.pc \in {"put", "get", "raised"}
    /\ i \in 1..sh.n
    /\ sh.task[i] = "queued"
    /\ \E outcome \in {"done", "raised"} : sh' = parallel_run(sh, i, outcome)
    /\ UNCHANGED <<fitvars, hvd, smallvars>>

ShGet ==
    /\ sh.pc = "get"
    /\ sh.out # <<>>
    /\ sh' = parallel_get(sh)
    /\ UNCHANGED <<fitvars, hvd, smallvars>>

ShFinish ==
    /\ sh.pc = "collected"
    /\ sh' = step_finish(sh)
    /\ UNCHANGED <<fitvars, hvd, smallvars>>

InitShardsSpec ==
    /\ FitUnused
    /\ hvd = NoHvd
    /\ InitShards
    /\ SmallUnused

NextShards ==
    \/ ShStep
    \/ ShPut
    \/ \E i \in 1..MaxShards : ShRun(i)
    \/ ShGet
    \/ ShFinish

SpecShards == InitShardsSpec /\ [][NextShards]_vars

(***************************************************************************)
(* Properties of SpecShards                                                *)
(***************************************************************************)
\* C8: when the task of any shard of a batch raises, _step ends with that exception
\* (it never gets to the code after _forward_backward), and when it has, no optimizer
\* step was applied for the batch and updates is what it was when _step was entered.
C8_ShardFailurePropagates ==
    sh # NoShards =>
        /\ (sh.pc = "collected") => \A i \in 1..sh.n : sh.task[i] = "done"
        /\ (sh.pc = "idle" /\ sh.batches >= 1) => \A i \in 1..sh.n : sh.task[i] = "done"
        /\ (sh.pc = "raised") =>
              /\ \E i \in 1..sh.n : sh.task[i] = "raised"
              /\ sh.updates = sh.entry.updates
              /\ sh.optimizer_steps = sh.entry.optimizer_steps
              /\ sh.optimizer_steps = (sh.batches - 1) \div sh.update_interval

C8_Witness ==
    /\ sh # NoShards
    /\ sh.pc = "raised"
    /\ sh.n = 2
    /\ sh.update_interval = 1
    /\ sh.batches = 2
    /\ sh.updates = 1
    /\ sh.task = <<"done", "raised">>
    /\ sh.got = 1

\* C23: every optimizer step consumes the gradients of exactly update_interval batches,
\* it is applied on a batch whose count is a multiple of update_interval, and with
\* update_interval > 1 the gradient buffers are empty right after the step.
C23_StepConsumesUpdateInterval ==
    (sh # NoShards /\ sh.optimizer_steps >= 1) =>
        /\ sh.consumed = sh.update_interval
        /\ sh.step_batch % sh.update_interval = 0
        /\ sh.optimizer_steps = sh.step_batch \div sh.update_interval
        /\ (sh.pc = "idle" /\ sh.step_batch = sh.batches /\ sh.update_interval > 1) =>
               sh.grad = 0

\* the second optimizer step of a run with update_interval 2
C23_Witness ==
    /\ sh # NoShards
    /\ sh.pc = "idle"
    /\ sh.update_interval = 2
    /\ sh.batches = 4
    /\ sh.optimizer_steps = 2
    /\ sh.consumed = 2
    /\ sh.grad = 0

\* C24: whatever the order in which the shard tasks complete, the optimizer step and
\* the updates and samples of the Ledger advance only when the results of all shards
\* of the batch have been collected, and no task of a batch is pending when the next
\* batch is dispatched.
C24_AdvanceAfterAllCollected ==
    sh # NoShards =>
        /\ (sh.pc \in {"put", "get", "collected"}) =>
               /\ sh.updates = sh.entry.updates
               /\ sh.optimizer_steps = sh.entry.optimizer_steps
               /\ sh.samples = (sh.batches - 1) * sh.n
        /\ (sh.pc = "collected") => sh.got = sh.n
        /\ (sh.pc = "idle" /\ sh.batches >= 1) =>
               /\ sh.got = sh.n
               /\ sh.out = <<>>
               /\ \A i \in 1..sh.n : sh.task[i] = "done"

\* the second shard was computed and collected while the first is still pending
C24_Witness ==
    /\ sh # NoShards
    /\ sh.pc = "get"
    /\ sh.n = 2
    /\ sh.batches = 2
    /\ sh.task = <<"queued", "done">>
    /\ sh.got = 1
    /\ sh.updates = sh.entry.updates

\* C32, as claimed: when the dispatch of a shard has failed, the Ledger in memory is as
\* it was when _step was entered: batches, updates and samples are unchanged.
C32_FailedStepLeavesLedger ==
    (sh # NoShards /\ sh.pc = "raised") =>
        /\ sh.batches = sh.entry.batches
        /\ sh.updates = sh.entry.updates
        /\ sh.samples = sh.entry.samples

\* C32, amended: when the dispatch of a shard has failed, updates and samples are as
\* they were when _step was entered and batches is one more: the failed batch is
\* counted, and only it.
C32_FailedStepCountsBatchOnly ==
    (sh # NoShards /\ sh.pc = "raised") =>
        /\ sh.batches = sh.entry.batches + 1
        /\ sh.updates = sh.entry.updates
        /\ sh.samples = sh.entry.samples

\* the first shard of the second batch failed, with update_interval 2
C32_Witness ==
    /\ sh # NoShards
    /\ sh.pc = "raised"
    /\ sh.n = 2
    /\ sh.update_interval = 2
    /\ sh.task[1] = "raised"
    /\ sh.entry.batches = 1
    /\ sh.batches = 2
    /\ sh.updates = 0
    /\ sh.samples = 2

(***************************************************************************)
(* SpecDecide: _determine_divergence and _determine_convergence as         *)
(* functions of their inputs.  The initial state holds the arguments of    *)
(* one call, the action of the function called stores what it returns.     *)
(***************************************************************************)
Floats == (0..MaxFloat) \cup {Inf, NaN}

Vocabs == 1..2

\* validation metrics: up to two metrics, perplexity among them or not
DivergenceMetrics ==
    {<<>>} \cup {<<[name |-> PERPLEXITY, value |-> v]>> : v \in Floats}
    \cup {<<[name |-> ACCURACY, value |-> a], [name |-> PERPLEXITY, value |-> v]>> :
            a \in 0..1, v \in Floats}

DivergenceCalls ==
    {[fn |-> "determine_divergence", val_metrics |-> m, vocab_target_size |-> n, done |-> FALSE,
      result |-> FALSE] : m \in DivergenceMetrics, n \in Vocabs}

\* Ledgers as _determine_convergence reads them: counters, checkpoint, best value, history
ConvergenceStates ==
    {[TrainState(PERPLEXITY) EXCEPT !.samples = c[1], !.updates = c[2], !.epoch = c[3],
                                    !.checkpoint = k, !.best_metric = b,
                                    !.best_metric_history = h] :
        c \in (0..1) \X (0..1) \X (0..1), k \in {0, 2}, b \in 1..2,
        h \in {<<1>>, <<2>>, <<Inf>>, <<2, 1>>, <<Inf, 2>>}}

ConvergenceConfigs ==
    {[TrainerConfig(HvdEnv(PERPLEXITY)) EXCEPT !.min_samples = m[1], !.min_updates = m[2],
                                               !.min_epochs = m[3],
                                               !.max_num_checkpoint_not_improved = p,
                                               !.checkpoint_improvement_threshold = t] :
        m \in {None, 1} \X {None, 1} \X {None, 1}, p \in {None, 0, 1}, t \in 0..1}

ConvergenceCalls ==
    {[fn |-> "determine_convergence", state |-> st, config |-> cfg, done |-> FALSE,
      result |-> FALSE] : st \in ConvergenceStates, cfg \in ConvergenceConfigs}

DecideUnchanged == UNCHANGED <<fitvars, auxvars, hvd, sh, cv, lp, ev>>

CallDivergence ==
    /\ pf.fn = "determine_divergence"
    /\ ~pf.done
    /\ pf' = [pf EXCEPT !.done = TRUE,
                        !.result = determine_divergence(pf.val_metrics, pf.vocab_target_size)]
    /\ DecideUnchanged

CallConvergence ==
    /\ pf.fn = "determine_convergence"
    /\ ~pf.done
    /\ pf' = [pf EXCEPT !.done = TRUE, !.result = determine_convergence(pf.state, pf.config)]
    /\ DecideUnchanged

InitDecide ==
    /\ FitUnused
    /\ AuxUnused
    /\ hvd = NoHvd
    /\ sh = NoShards
    /\ pf \in DivergenceCalls \cup ConvergenceCalls
    /\ cv = NoWindow
    /\ lp = NoLoop
    /\ ev = NoEval

NextDecide ==
    \/ CallDivergence
    \/ CallConvergence

SpecDecide == InitDecide /\ [][NextDecide]_vars

(***************************************************************************)
(* Properties of SpecDecide                                                *)
(***************************************************************************)
DivergenceReturned == pf.fn = "determine_divergence" /\ pf.done

\* the value of the validation perplexity of a call that has one
CalledPerplexity == pf.val_metrics[Len(pf.val_metrics)].value

ConvergenceReturned == pf.fn = "determine_convergence" /\ pf.done

\* C11: _determine_divergence returns true for a perplexity of +infinity and for one
\* above 2 * vocab_target_size, and false for every finite perplexity up to and
\* including 2 * vocab_target_size.
C11_DivergenceThreshold ==
    (DivergenceReturned /\ pf.val_metrics # <<>>) =>
        LET ppl == CalledPerplexity
            bound == 2 * pf.vocab_target_size
        IN  /\ (ppl = MaxFloat + 1) => pf.result
            /\ (ppl <= MaxFloat /\ ppl > bound) => pf.result
            /\ (ppl <= MaxFloat /\ ppl <= bound) => ~pf.result

C11_Witness ==
    /\ DivergenceReturned
    /\ Len(pf.val_metrics) = 2
    /\ pf.vocab_target_size = 2
    /\ CalledPerplexity = 4
    /\ ~pf.result

\* C12: with a configured minimum unmet, _determine_convergence returns false whatever
\* the patience, the history and the threshold are.
C12_MinimumsFirst ==
    ConvergenceReturned =>
        LET st == pf.state
            cfg == pf.config
            unmet == \/ cfg.min_samples >= 0 /\ st.samples < cfg.min_samples
                     \/ cfg.min_updates >= 0 /\ st.updates < cfg.min_updates
                     \/ cfg.min_epochs >= 0 /\ st.epoch < cfg.min_epochs
        IN  unmet => ~pf.result

\* only min_epochs is unmet, and the window by itself shows no improvement
C12_Witness ==
    /\ ConvergenceReturned
    /\ pf.config.min_epochs = 1
    /\ pf.state.epoch = 0
    /\ pf.config.min_samples = 1
    /\ pf.state.samples = 1
    /\ pf.config.min_updates = None
    /\ pf.config.max_num_checkpoint_not_improved = 1
    /\ pf.config.checkpoint_improvement_threshold = 0
    /\ pf.state.checkpoint = 2
    /\ pf.state.best_metric = 1
    /\ pf.state.best_metric_history = <<1>>
    /\ ~pf.result

(***************************************************************************)
(* SpecWindow: a fresh run seen at its checkpoints only.  The patience is  *)
(* drawn at the start, the threshold is 0 and no minimum is configured;    *)
(* every checkpoint evaluates to some perplexity and takes the decisions   *)
(* of fit lines 262-264; the run ends when it converged or diverged.       *)
(***************************************************************************)
MaxWindow == 4

WindowConfigs ==
    {[TrainerConfig(HvdEnv(PERPLEXITY)) EXCEPT !.max_num_checkpoint_not_improved = p] :
        p \in 0..MaxPatience}

\* the perplexities a checkpoint may evaluate to: finite ones on both sides of the
\* divergence threshold 2 * 1, and +infinity
WindowValues == (1..MaxFloat) \cup {Inf}

InitWindow ==
    \E cfg \in WindowConfigs :
        cv = [pc |-> "run", config |-> cfg, state |-> TrainState(PERPLEXITY), values |-> <<>>]

\* fit, lines 234-264 and 280-281, with the value _evaluate returned
WindowCheckpoint ==
    /\ cv.pc = "run"
    /\ cv.state.checkpoint < MaxWindow
    /\ \E value \in WindowValues :
          LET d == checkpoint_decisions(cv.state, cv.config, 1, val_metrics_of(value))
          IN  cv' = [cv EXCEPT !.state = d.state,
                               !.values = Append(@, value),
                               !.pc = IF d.state.converged \/ d.state.diverged
                                      THEN "stopped" ELSE "run"]
    /\ UNCHANGED <<fitvars, auxvars, hvd, sh, pf, lp, ev>>

\* fit, lines 283-292: the run is over
WindowReturn ==
    /\ cv.pc = "stopped"
    /\ cv' = [cv EXCEPT !.pc = "returned"]
    /\ UNCHANGED <<fitvars, auxvars, hvd, sh, pf, lp, ev>>

InitWindowSpec ==
    /\ FitUnused
    /\ AuxUnused
    /\ hvd = NoHvd
    /\ sh = NoShards
    /\ pf = NoCall
    /\ InitWindow
    /\ lp = NoLoop
    /\ ev = NoEval

NextWindow ==
    \/ WindowCheckpoint
    \/ WindowReturn

SpecWindow == InitWindowSpec /\ [][NextWindow]_vars

(***************************************************************************)
(* Properties of SpecWindow                                                *)
(***************************************************************************)
\* the best (lowest) perplexity among the first k values of the run; +infinity for none
RECURSIVE BestOfFirst(_, _)
BestOfFirst(values, k) ==
    IF k = 0 THEN MaxFloat + 1
    ELSE LET b == BestOfFirst(values, k - 1)
         IN  IF values[k] < b THEN values[k] ELSE b

WindowAt(k) == cv # NoWindow /\ cv.state.checkpoint = k /\ k >= 1

WindowPatience == cv.config.max_num_checkpoint_not_improved

\* the best value after checkpoint k is the one after checkpoint k - p
BestUnchanged(k, p) == k >= p /\ BestOfFirst(cv.values, k) = BestOfFirst(cv.values, k - p)

IsPrefix(s, t) == Len(s) <= Len(t) /\ \A i \in 1..Len(s) : s[i] = t[i]

\* C13, as claimed: with threshold 0 and patience p >= 1, a checkpoint of a fresh run
\* declares convergence exactly when the best metric has not changed over the last p
\* checkpoints (the run ends there, so it is the first such checkpoint).
C13_ConvergesWhenBestUnchanged ==
    \A k \in 1..(MaxWindow + 1) :
        (WindowAt(k) /\ WindowPatience >= 1) =>
            (cv.state.converged = BestUnchanged(k, WindowPatience))

\* C13, amended: ... exactly when the best metric is finite and has not changed over the
\* last p checkpoints; for the values 2, 1, 1, 1 (10, 9, 9, 9 up to scale) and p = 2
\* that is the 4th checkpoint.
C13_ConvergesWhenFiniteBestUnchanged ==
    \A k \in 1..(MaxWindow + 1) :
        (WindowAt(k) /\ WindowPatience >= 1) =>
            /\ cv.state.converged =
                  (BestUnchanged(k, WindowPatience) /\ BestOfFirst(cv.values, k) <= MaxFloat)
            /\ (WindowPatience = 2 /\ IsPrefix(cv.values, <<2, 1, 1, 1>>)) =>
                  (cv.state.converged = (k = 4))

C13_Witness ==
    /\ cv # NoWindow
    /\ cv.pc = "returned"
    /\ WindowPatience = 2
    /\ cv.values = <<2, 1, 1, 1>>
    /\ cv.state.checkpoint = 4
    /\ cv.state.converged
    /\ ~cv.state.diverged

(***************************************************************************)
(* SpecLoop: calls of fit that run to their return, one after the other,   *)
(* on one output directory, with one training source and one pair of      *)
(* intervals.  Each call draws its stopping criteria: at most one of the   *)
(* budgets max_updates, max_epochs, max_samples and max_checkpoints.       *)
(* Patience is not configured and every                                    *)
(* checkpoint evaluates to perplexity 1, so no call converges or diverges. *)
(* lp.snap is the training state directory: absent, or the snapshot of the *)
(* last checkpoint (line 268).  lp.start is the Ledger the call started    *)
(* with.  Calls are made while the snapshot is of one of the first         *)
(* MaxBudget checkpoints, and a call that never reaches its budget is      *)
(* followed for MaxLoopBatches batches.                                    *)
(***************************************************************************)
MaxBudget == 2

MaxLoopBatches == 4 * MaxBudget

LoopBudgets ==
    {<<f, n>> : f \in {"max_updates", "max_epochs", "max_samples", "max_checkpoints"},
                n \in 0..MaxBudget}

LoopConfigs(e) ==
    {TrainerConfig(e)} \cup {[TrainerConfig(e) EXCEPT ![b[1]] = b[2]] : b \in LoopBudgets}

InitLoop ==
    \E e \in Envs :
        lp = [pc |-> "idle", env |-> e, snap |-> Absent]

\* fit, lines 189-210: resume from the snapshot if there is one, else start fresh
LpFit ==
    /\ lp.pc \in {"idle", "returned"}
    /\ Exists(lp.snap) => lp.snap.state.checkpoint <= MaxBudget
    /\ \E c \in LoopConfigs(lp.env) :
          LET resume == Exists(lp.snap)
              loaded == load_training_state(lp.snap)
              st == IF resume THEN loaded.state ELSE TrainState(c.early_stopping_metric)
          IN  lp' = [pc |-> "loop", env |-> lp.env, snap |-> lp.snap,
                     config |-> translate_max_checkpoints(c, st),
                     state |-> st,
                     iter |-> IF resume THEN loaded.iter ELSE 0,
                     resume_training |-> resume,
                     start |-> st]
    /\ UNCHANGED <<fitvars, auxvars, hvd, sh, pf, cv, ev>>

\* lines 213-223 and 283-292: a budget is reached, fit returns the Ledger
LpStop ==
    /\ lp.pc = "loop"
    /\ budget_reached(lp.state, lp.config)
    /\ lp' = [lp EXCEPT !.pc = "returned"]
    /\ UNCHANGED <<fitvars, auxvars, hvd, sh, pf, cv, ev>>

\* lines 225-281: one batch; at a checkpoint boundary the decisions, the snapshot
\* (line 268), the metrics record (line 271) and the test of line 280
LpStep ==
    /\ lp.pc = "loop"
    /\ ~budget_reached(lp.state, lp.config)
    /\ lp.state.batches - lp.start.batches < MaxLoopBatches
    /\ \E r \in {loop_body(lp.state, lp.iter, lp.config, lp.env, 1)} :
           lp' = [lp EXCEPT !.state = IF r.due THEN write_metrics(r.state) ELSE r.state,
                            !.iter = r.iter,
                            !.snap = IF r.due THEN Snapshot(r.state, r.iter, <<>>) ELSE @,
                            !.pc = IF r.due /\ (r.state.converged \/ r.state.diverged)
                                   THEN "returned" ELSE "loop"]
    /\ UNCHANGED <<fitvars, auxvars, hvd, sh, pf, cv, ev>>

InitLoopSpec ==
    /\ FitUnused
    /\ AuxUnused
    /\ hvd = NoHvd
    /\ sh = NoShards
    /\ pf = NoCall
    /\ cv = NoWindow
    /\ InitLoop
    /\ ev = NoEval

NextLoop ==
    \/ LpFit
    \/ LpStop
    \/ LpStep

\* the loop of fit keeps running until it breaks: nothing else stops it
SpecLoop == InitLoopSpec /\ [][NextLoop]_vars /\ WF_vars(LpStop) /\ WF_vars(LpStep)

(***************************************************************************)
(* Properties of SpecLoop                                                  *)
(***************************************************************************)
LoopRunning == lp.pc = "loop"

LoopReturned == lp.pc = "returned"

LoopCalled == lp.pc \in {"loop", "returned"}

\* C14, as claimed: whenever fit pulls a training batch while max_updates is configured,
\* the Ledger's update count is strictly below max_updates, for a fresh fit and for a fit
\* resumed from any snapshot.
C14_PullsBelowMaxUpdates ==
    [][(/\ LoopRunning
        /\ lp'.pc \in {"loop", "returned"}
        /\ lp'.state.batches = lp.state.batches + 1
        /\ lp.config.max_updates # None)
       => lp.state.updates < lp.config.max_updates]_vars

\* one of the three budgets of the loop head is configured by the caller
BudgetConfigured ==
    /\ lp.config.max_checkpoints = None
    /\ \/ lp.config.max_epochs # None
       \/ lp.config.max_updates # None
       \/ lp.config.max_samples # None

C28_CheckpointCountsUpdates ==
    /\ [](LoopCalled =>
             lp.state.checkpoint = lp.state.updates \div lp.config.checkpoint_interval)
    /\ [][(LoopRunning /\ lp'.pc \in {"loop", "returned"}
            /\ lp'.state.batches = lp.state.batches + 1) =>
              (lp'.state.checkpoint = lp.state.checkpoint + 1
                 <=> /\ lp'.state.updates = lp.state.updates + 1
                     /\ lp'.state.updates % lp.config.checkpoint_interval = 0)]_vars

\* a loop head of a resumed fit between two boundaries
C28_Witness ==
    /\ LoopRunning
    /\ lp.resume_training
    /\ lp.config.update_interval = 2
    /\ lp.config.checkpoint_interval = 2
    /\ lp.state.batches = 6
    /\ lp.state.updates = 3
    /\ lp.state.checkpoint = 1

(***************************************************************************)
(* SpecEval: the entry of fit (lines 179-199) and _evaluate.  There is one *)
(* loss function, whose metric is named perplexity.  A shard's loss output *)
(* is the pair (loss value, number of samples); a LossMetric is its name   *)
(* with the sums update() has accumulated, and get() is sum / num_inst.    *)
(* ev.batches lists the validation batches of the pass as they were drawn. *)
(***************************************************************************)
MaxValBatches == 2

ShardOutputs == {[loss |-> 1, num_samples |-> 1], [loss |-> 2, num_samples |-> 1],
                 [loss |-> 2, num_samples |-> 2]}

\* the named scores decode_and_evaluate returns, in the order of the dict
DecoderOutputs ==
    {<<>>,
     <<[name |-> BLEU, value |-> 1]>>,
     <<[name |-> PERPLEXITY, value |-> 1]>>,
     <<[name |-> BLEU, value |-> 1], [name |-> PERPLEXITY, value |-> 2]>>}

\* loss.LossMetric(name), its update(loss, num_samples)
LossMetric(name) == [name |-> name, sum |-> 0, num_inst |-> 0]

metric_update(m, loss_value, num_samples) ==
    [m EXCEPT !.sum = @ + loss_value, !.num_inst = @ + num_samples]

\* mx.nd.add_n over the shards of sharded_loss_outputs, line 376
RECURSIVE add_n(_, _)
add_n(outputs, field) ==
    IF outputs = <<>> THEN 0
    ELSE outputs[1][field] + add_n(Tail(outputs), field)

\* a variant that creates the Ledger and saves the configuration before it tests
\* the precondition
fit_entry_late(metric, has_decoder) ==
    IF metric \in METRICS_REQUIRING_DECODER /\ ~has_decoder
    THEN [pc |-> "config_error", state |-> TrainState(metric), written |-> TRUE]
    ELSE [pc |-> "ready", state |-> TrainState(metric), written |-> TRUE]

\* fit, lines 181-183 (utils.check_condition raises) and then lines 189-196 of a
\* fresh start: the Ledger, save_config and save_version
fit_entry(metric, has_decoder) ==
    IF metric \in METRICS_REQUIRING_DECODER /\ ~has_decoder
    THEN [pc |-> "config_error", state |-> NoState, written |-> FALSE]
    ELSE [pc |-> "ready", state |-> TrainState(metric), written |-> TRUE]

\* line 395, metric_name not in val_metrics: val_metrics holds LossMetric objects and
\* metric_name is a str; LossMetric defines no __eq__, so the two never compare equal
str_eq_metric(metric_name, m) == FALSE

name_in_val_metrics(metric_name, val_metrics) ==
    \E i \in 1..Len(val_metrics) : str_eq_metric(metric_name, val_metrics[i])

\* lines 394-398 for the first n scores of the evaluator
RECURSIVE merge_decoder_metrics(_, _, _)
merge_decoder_metrics(val_metrics, decoder_metrics, n) ==
    IF n = 0 THEN [val_metrics |-> val_metrics, failed |-> FALSE]
    ELSE LET r == merge_decoder_metrics(val_metrics, decoder_metrics, n - 1)
             d == decoder_metrics[n]
         IN  IF r.failed THEN r
             ELSE IF name_in_val_metrics(d.name, r.val_metrics)
             THEN [r EXCEPT !.failed = TRUE]
             ELSE [r EXCEPT !.val_metrics =
                       Append(@, metric_update(LossMetric(d.name), d.value, 1))]

InitEval ==
    \E metric \in {PERPLEXITY, BLEU}, has_decoder \in BOOLEAN, contexts \in 1..MaxShards :
        ev = [pc |-> "idle", early_stopping_metric |-> metric, checkpoint_decoder |-> has_decoder,
              contexts |-> contexts, state |-> NoState, written |-> FALSE,
              val_metrics |-> <<>>, sharded_loss_outputs |-> <<>>, batches |-> <<>>,
              decoder_metrics |-> <<>>]

\* fit is called
EvFit ==
    /\ ev.pc = "idle"
    /\ LET r == fit_entry(ev.early_stopping_metric, ev.checkpoint_decoder)
       IN  ev' = [ev EXCEPT !.pc = r.pc, !.state = r.state, !.written = r.written]
    /\ UNCHANGED <<fitvars, auxvars, hvd, sh, pf, cv, lp>>

\* _evaluate, lines 360-366, at a checkpoint
EvReset ==
    /\ ev.pc \in {"ready", "returned"}
    /\ ev' = [ev EXCEPT !.pc = "pass",
                        !.val_metrics = <<LossMetric(PERPLEXITY)>>,
                        !.sharded_loss_outputs = <<>>,
                        !.batches = <<>>,
                        !.decoder_metrics = <<>>]
    /\ UNCHANGED <<fitvars, auxvars, hvd, sh, pf, cv, lp>>

\* lines 367-380: one validation batch, one loss output per context
EvBatch ==
    /\ ev.pc = "pass"
    /\ Len(ev.batches) < MaxValBatches
    /\ \E batch \in [1..ev.contexts -> ShardOutputs] :
          LET outs == ev.sharded_loss_outputs \o batch
          IN  ev' = [ev EXCEPT !.sharded_loss_outputs = outs,
                               !.val_metrics[1] = metric_update(@, add_n(outs, "loss"),
                                                                add_n(outs, "num_samples")),
                               !.batches = Append(@, batch)]
    /\ UNCHANGED <<fitvars, auxvars, hvd, sh, pf, cv, lp>>

\* lines 391 and 401-408: the pass is over and there is no evaluator
EvReturn ==
    /\ ev.pc = "pass"
    /\ ~ev.checkpoint_decoder
    /\ ev' = [ev EXCEPT !.pc = "returned"]
    /\ UNCHANGED <<fitvars, auxvars, hvd, sh, pf, cv, lp>>

\* lines 391-408: the pass is over, the evaluator's scores are merged in
EvDecode ==
    /\ ev.pc = "pass"
    /\ ev.checkpoint_decoder
    /\ \E decoder_metrics \in DecoderOutputs :
          LET r == merge_decoder_metrics(ev.val_metrics, decoder_metrics, Len(decoder_metrics))
          IN  ev' = [ev EXCEPT !.pc = IF r.failed THEN "failed" ELSE "returned",
                               !.val_metrics = r.val_metrics,
                               !.decoder_metrics = decoder_metrics]
    /\ UNCHANGED <<fitvars, auxvars, hvd, sh, pf, cv, lp>>

InitEvalSpec ==
    /\ FitUnused
    /\ AuxUnused
    /\ hvd = NoHvd
    /\ sh = NoShards
    /\ pf = NoCall
    /\ cv = NoWindow
    /\ lp = NoLoop
    /\ InitEval

NextEval ==
    \/ EvFit
    \/ EvReset
    \/ EvBatch
    \/ EvReturn
    \/ EvDecode

SpecEval == InitEvalSpec /\ [][NextEval]_vars

(***************************************************************************)
(* Properties of SpecEval                                                  *)
(***************************************************************************)
EvalReturned == ev.pc = "returned"

\* the names the pass put into the metric set before the evaluator ran
PassNames == {PERPLEXITY}

OffersDuplicate ==
    \E i \in 1..Len(ev.decoder_metrics) : ev.decoder_metrics[i].name \in PassNames

\* C17, as claimed: when the external evaluator returns a score named like a metric
\* already in the validation metric set, _evaluate fails; it does not return a metric
\* set with a second metric of that name.
C17_DuplicateNameIsFatal ==
    (ev.pc \in {"returned", "failed"} /\ OffersDuplicate) =>
        /\ ev.pc = "failed"
        /\ \A i, j \in 1..Len(ev.val_metrics) :
              ev.val_metrics[i].name = ev.val_metrics[j].name => i = j

\* the sum of a field over all shards of all batches of the pass, each batch once
RECURSIVE sum_batches(_, _)
sum_batches(batches, field) ==
    IF batches = <<>> THEN 0
    ELSE add_n(batches[1], field) + sum_batches(Tail(batches), field)

\* C18, as claimed: the validation metric _evaluate returns (sum / num_inst) equals the
\* sum of the loss over all validation batches divided by the sum of their sample
\* counts, each batch contributing once.
C18_MetricIsLossPerSample ==
    (EvalReturned /\ ev.batches # <<>>) =>
        ev.val_metrics[1].sum * sum_batches(ev.batches, "num_samples")
            = sum_batches(ev.batches, "loss") * ev.val_metrics[1].num_inst

\* C20: when the early-stopping metric requires the external evaluator and fit is called
\* without one, fit fails with a configuration error, and at that point no Ledger has
\* been created or loaded, nothing has been written and no batch has been pulled;
\* otherwise fit goes on.
C20_MissingEvaluatorFailsFirst ==
    /\ (ev.pc \notin {"none", "idle"} /\ ev.early_stopping_metric \in METRICS_REQUIRING_DECODER
           /\ ~ev.checkpoint_decoder) => ev.pc = "config_error"
    /\ ev.pc = "config_error" =>
          /\ ev.early_stopping_metric \in METRICS_REQUIRING_DECODER
          /\ ~ev.checkpoint_decoder
          /\ ev.state = NoState
          /\ ~ev.written
          /\ ev.batches = <<>>
          /\ ev.val_metrics = <<>>

C20_Witness ==
    /\ ev.pc = "config_error"
    /\ ev.early_stopping_metric = BLEU
    /\ ~ev.checkpoint_decoder
    /\ ev.state = NoState

(***************************************************************************)
(* Further properties of Spec                                              *)
(***************************************************************************)
\* C19, as claimed: between checkpoints and when fit has returned, the metrics history
\* holds exactly one record per checkpoint, in checkpoint order, so its length is the
\* Ledger's checkpoint index; also in a fit resumed from a snapshot.
C19_OneRecordPerCheckpoint ==
    (pc \in {"loop", "returned"}) =>
        /\ Len(state.metrics) = state.checkpoint
        /\ \A i \in 1..Len(state.metrics) : state.metrics[i] = i

(***************************************************************************)
(* SpecArtifacts: the checkpoints of fit with the files they leave in the  *)
(* output location.  The training between two checkpoints is not followed. *)
(* ck.state is the Ledger, ck.trainer the optimizer in memory: the         *)
(* checkpoint its states come from, the learning rate in effect and the    *)
(* scheduler's count of evaluations without improvement.  On disk:         *)
(* ck.params, the checkpoints whose parameters file exists; ck.best_link,  *)
(* the checkpoint params.best points to; ck.best_states, the best          *)
(* optimizer-state file; ck.snap, the training state directory.            *)
(* Learning rates are levels: lowering a rate takes it one level down.     *)
(***************************************************************************)
InitialLr == MaxCheckpoints + 1

\* what _evaluate may return: the early-stopping metric with any value, a metric set
\* without it, and a set that holds it twice
ArtifactMetrics ==
    {val_metrics_of(v) : v \in MetricValues}
    \cup {<<[name |-> ACCURACY, value |-> 1]>>}
    \cup {<<[name |-> PERPLEXITY, value |-> 1], [name |-> PERPLEXITY, value |-> 2]>>}

\* utils.cleanup_params_files without keep_initializations: the max_to_keep most recent
\* files and the file of the best checkpoint stay
cleanup_params_files(params, max_to_keep, checkpoint, best_checkpoint) ==
    IF max_to_keep <= 0 THEN params
    ELSE {n \in params : n > checkpoint - max_to_keep \/ n = best_checkpoint}

\* _save_params, lines 573-579
save_params(params, max_to_keep, st) ==
    cleanup_params_files(params \cup {st.checkpoint}, max_to_keep, st.checkpoint,
                         st.best_checkpoint)

\* AdaptiveLearningRateScheduler.new_evaluation_result: the rate is lowered after
\* reduce_num_not_improved evaluations in a row without improvement
new_evaluation_result(trainer, reduce_num_not_improved, has_improved) ==
    IF has_improved THEN [trainer |-> [trainer EXCEPT !.num_not_improved = 0], lr_adjusted |-> FALSE]
    ELSE IF trainer.num_not_improved + 1 >= reduce_num_not_improved
    THEN [trainer |-> [trainer EXCEPT !.num_not_improved = 0, !.lr = @ - 1], lr_adjusted |-> TRUE]
    ELSE [trainer |-> [trainer EXCEPT !.num_not_improved = @ + 1], lr_adjusted |-> FALSE]

\* _adjust_learning_rate, lines 521-535.  trainer.load_states raises if the file is not
\* there; the states are saved without the optimizer instance, and line 535 sets the
\* adjusted rate whatever load_states did to the scheduler
adjust_learning_rate(trainer, best_states, reduce_num_not_improved, has_improved) ==
    LET r == new_evaluation_result(trainer, reduce_num_not_improved, has_improved)
        adjusted_lr == r.trainer.lr
    IN  IF r.lr_adjusted /\ ~has_improved
        THEN IF ~Exists(best_states)
             THEN [trainer |-> r.trainer, lr_adjusted |-> TRUE, rewound |-> FALSE, failed |-> TRUE]
             ELSE [trainer |-> [r.trainer EXCEPT !.states = best_states.states,
                                                 !.lr = adjusted_lr],
                   lr_adjusted |-> TRUE, rewound |-> TRUE, failed |-> FALSE]
        ELSE [trainer |-> r.trainer, lr_adjusted |-> r.lr_adjusted, rewound |-> FALSE,
              failed |-> FALSE]

NoLast == [checkpoint |-> 0]

\* _load_trainer_states, lines 587-589: Trainer.load_states is the library's.  The
\* comment of line 531 says that it also reloads the parameters; whether it does is the
\* library's matter, so the model follows both: with reloads the parameters in memory
\* become those that went with the loaded states, without it they stay
load_trainer_states_parameters(model, states, reloads) ==
    IF reloads THEN states ELSE model

\* ck.model names the parameters in memory by the checkpoint whose parameters file
\* holds the same values; ck.load_states_reloads is what the library does
InitArtifacts ==
    \E max_to_keep \in 1..2, reduce_num_not_improved \in 1..2, reloads \in BOOLEAN :
        ck = [pc |-> "idle", max_params_files_to_keep |-> max_to_keep,
              reduce_num_not_improved |-> reduce_num_not_improved,
              load_states_reloads |-> reloads,
              state |-> NoState, trainer |-> NoState, model |-> None,
              resume_training |-> FALSE,
              params |-> {}, best_link |-> None, best_states |-> Absent, snap |-> Absent,
              last |-> NoLast]

\* fit, lines 189-199: a new process resumes from the snapshot or starts fresh.  The
\* optimizer states are saved without the optimizer instance (lines 897-919), so the
\* scheduler of a resumed process is the one the process was started with.
\* _load_training_state, lines 654-660: load_parameters follows the snapshot's link to
\* the parameters file and raises if the file is gone; load_states comes after it.
CkFit ==
    /\ ck.pc \in {"idle", "returned"}
    /\ LET resume == Exists(ck.snap)
       IN  IF resume /\ ck.snap.params \notin ck.params
           THEN ck' = [ck EXCEPT !.pc = "load_raised",
                                 !.resume_training = TRUE,
                                 !.state = TrainState(PERPLEXITY),
                                 !.trainer = [states |-> 0, lr |-> InitialLr,
                                              num_not_improved |-> 0],
                                 !.model = 0,
                                 !.last = NoLast]
           ELSE ck' = [ck EXCEPT !.pc = "loop",
                            !.resume_training = resume,
                            !.state = IF resume THEN ck.snap.state
                                      ELSE TrainState(PERPLEXITY),
                            !.trainer = [states |-> IF resume THEN ck.snap.trainer.states
                                                     ELSE 0,
                                         lr |-> InitialLr, num_not_improved |-> 0],
                            !.model = IF resume
                                      THEN load_trainer_states_parameters(
                                               ck.snap.params, ck.snap.trainer.states,
                                               ck.load_states_reloads)
                                      ELSE 0,
                            !.last = NoLast]
    /\ UNCHANGED <<fitvars, hvd, sh, pf, cv, lp, ev, tm, sp, sv>>

\* fit, lines 234-267, at a checkpoint boundary: the parameters file, the evaluation,
\* the decisions, the learning rate, and the best-parameters link and best optimizer
\* states if the checkpoint improved.  The assertion of line 444 and load_states end
\* the process with an exception.
CkCheckpoint ==
    /\ ck.pc = "loop"
    /\ ck.state.checkpoint < MaxCheckpoints
    /\ \E val_metrics \in ArtifactMetrics :
          \E d \in {checkpoint_decisions(ck.state, TrainerConfig(HvdEnv(PERPLEXITY)), 1,
                                         val_metrics)} :
             \E a \in {adjust_learning_rate([ck.trainer EXCEPT !.states = d.state.checkpoint],
                                            ck.best_states, ck.reduce_num_not_improved,
                                            d.has_improved)} :
                LET params == save_params(ck.params, ck.max_params_files_to_keep,
                                          [ck.state EXCEPT !.checkpoint = @ + 1])
                    last == [checkpoint |-> d.state.checkpoint, val_metrics |-> val_metrics,
                             before |-> ck.state,
                             has_improved |-> d.has_improved, lr_adjusted |-> a.lr_adjusted,
                             rewound |-> a.rewound, lr_before |-> ck.trainer.lr]
                    \* line 237 writes the parameters in memory to the file of this
                    \* checkpoint; line 532 loads the best states after it
                    model == IF a.rewound
                             THEN load_trainer_states_parameters(
                                      d.state.checkpoint, a.trainer.states,
                                      ck.load_states_reloads)
                             ELSE d.state.checkpoint
                IN  IF d.failed
                    THEN ck' = [ck EXCEPT !.pc = "failed", !.state = d.state,
                                          !.params = params, !.model = d.state.checkpoint,
                                          !.last = [last EXCEPT !.lr_adjusted = FALSE,
                                                                !.rewound = FALSE]]
                    ELSE IF a.failed
                    THEN ck' = [ck EXCEPT !.pc = "failed", !.state = d.state,
                                          !.params = params, !.trainer = a.trainer,
                                          !.model = d.state.checkpoint,
                                          !.last = last]
                    ELSE ck' = [ck EXCEPT !.pc = "save", !.state = d.state,
                                          !.params = params, !.trainer = a.trainer,
                                          !.model = model,
                                          !.best_link = IF d.has_improved
                                                        THEN d.state.best_checkpoint ELSE @,
                                          !.best_states = IF d.has_improved
                                                          THEN [kind |-> "states",
                                                                states |-> a.trainer.states]
                                                          ELSE @,
                                          !.last = last]
    /\ UNCHANGED <<fitvars, hvd, sh, pf, cv, lp, ev, tm, sp, sv>>

\* fit, lines 268-292: the snapshot, the metrics record, and the end of the loop with
\* _cleanup if the run converged or diverged.  The snapshot's params names the file its
\* link points to (lines 600-605); continued is not on disk, it records the parameters
\* the process had in memory when it wrote the snapshot.
CkSave ==
    /\ ck.pc = "save"
    /\ LET stop == ck.state.converged \/ ck.state.diverged
           st == write_metrics(ck.state)
       IN  ck' = [ck EXCEPT !.pc = IF stop THEN "returned" ELSE "loop",
                            !.snap = [kind |-> "snapshot", state |-> ck.state,
                                      trainer |-> ck.trainer, params |-> ck.state.checkpoint,
                                      continued |-> ck.model],
                            !.state = st,
                            !.params = IF stop
                                       THEN cleanup_params_files(@, ck.max_params_files_to_keep,
                                                                 st.checkpoint, st.best_checkpoint)
                                       ELSE @]
    /\ UNCHANGED <<fitvars, hvd, sh, pf, cv, lp, ev, tm, sp, sv>>

\* the process ends, by its own exception or from outside: the files stay
CkCrash ==
    /\ ck.pc \in {"loop", "save", "failed", "load_raised"}
    /\ ck' = [ck EXCEPT !.pc = "idle", !.state = NoState, !.trainer = NoState,
                        !.model = None,
                        !.resume_training = FALSE, !.last = NoLast]
    /\ UNCHANGED <<fitvars, hvd, sh, pf, cv, lp, ev, tm, sp, sv>>

InitArtifactsSpec ==
    /\ FitUnused
    /\ hvd = NoHvd
    /\ sh = NoShards
    /\ pf = NoCall
    /\ cv = NoWindow
    /\ lp = NoLoop
    /\ ev = NoEval
    /\ InitArtifacts
    /\ tm = NoClock
    /\ sp = NoSpeed
    /\ sv = NoSave

NextArtifacts ==
    \/ CkFit
    \/ CkCheckpoint
    \/ CkSave
    \/ CkCrash

SpecArtifacts == InitArtifactsSpec /\ [][NextArtifacts]_vars

(***************************************************************************)
(* Properties of SpecArtifacts                                             *)
(***************************************************************************)
\* the process has just gone through lines 234-267 of a checkpoint
AtCheckpoint == ck.pc \in {"save", "failed"} /\ ck.last # NoLast

MetricAbsent ==
    \A i \in 1..Len(ck.last.val_metrics) :
        ck.last.val_metrics[i].name # ck.state.early_stopping_metric

\* C21: when the early-stopping metric is absent from the validation metrics,
\* _determine_improvement fails, best_metric, best_checkpoint, num_not_improved and
\* best_metric_history are as before the checkpoint, and the snapshot on disk is still
\* the one the process had before this checkpoint.
C21_AbsentMetricIsFatal ==
    /\ (AtCheckpoint /\ MetricAbsent) =>
          /\ ck.pc = "failed"
          /\ ck.state.best_metric = ck.last.before.best_metric
          /\ ck.state.best_checkpoint = ck.last.before.best_checkpoint
          /\ ck.state.num_not_improved = ck.last.before.num_not_improved
          /\ ck.state.best_metric_history = ck.last.before.best_metric_history
          /\ Exists(ck.snap) => ck.snap.state.checkpoint = ck.last.before.checkpoint
          /\ ~Exists(ck.snap) => ~ck.resume_training
    /\ (ck.pc = "save" /\ ck.last # NoLast) => ~MetricAbsent

C21_Witness ==
    /\ AtCheckpoint
    /\ MetricAbsent
    /\ ck.pc = "failed"
    /\ ck.last.checkpoint = 2
    /\ Exists(ck.snap)
    /\ ck.snap.state.checkpoint = 1

\* line 527 was reached at this checkpoint: the scheduler lowered the rate and the
\* metric did not improve
RewindTriggered == AtCheckpoint /\ ck.last.lr_adjusted /\ ~ck.last.has_improved

\* a checkpoint of this process went through line 271
CheckpointCompleted == ck.pc \in {"loop", "returned"} /\ ck.last # NoLast

\* C22: the optimizer states are those of the best checkpoint exactly at the checkpoints
\* where the scheduler lowered the rate and the metric did not improve, and the rate in
\* effect after such a checkpoint is the lowered one.
C22_RewindExactlyOnLoweredRate ==
    AtCheckpoint =>
       /\ ck.last.rewound <=> (ck.last.lr_adjusted /\ ~ck.last.has_improved)
       /\ ck.last.rewound =>
             /\ ck.trainer.states = ck.best_states.states
             /\ ck.trainer.lr = ck.last.lr_before - 1

\* C25: after a completed checkpoint with best_checkpoint >= 1, params.best points to
\* the parameters file of best_checkpoint and that file exists.
C25_BestLinkReferencesBest ==
    (CheckpointCompleted /\ ck.state.best_checkpoint >= 1) =>
       /\ ck.best_link = ck.state.best_checkpoint
       /\ ck.best_link \in ck.params

\* C27: after a completed checkpoint num_not_improved is the distance from the
\* checkpoint to best_checkpoint.
C27_NotImprovedIsDistanceToBest ==
    CheckpointCompleted =>
       /\ ck.state.num_not_improved = ck.state.checkpoint - ck.state.best_checkpoint
       /\ ck.state.best_checkpoint <= ck.state.checkpoint

\* C30: when a rewind is triggered, the best optimizer-state file has been written by
\* an improving checkpoint before.
C30_RewindFindsBestStates ==
    RewindTriggered => Exists(ck.best_states)

\* C33 as claimed: the parameters file a snapshot references holds the parameters the
\* process that wrote it went on training with, also where the rewind to the best
\* state came before the snapshot; and a resume from the snapshot loads these
\* parameters and the snapshot's optimizer states.
ResumedFromSnapshot == ck.pc = "loop" /\ ck.resume_training /\ ck.last = NoLast

C33_SnapshotHoldsContinuedParameters ==
    (ck # NoArtifacts /\ Exists(ck.snap)) =>
        /\ ck.snap.params = ck.snap.continued
        /\ ck.pc # "load_raised"
        /\ ResumedFromSnapshot =>
              /\ ck.model = ck.snap.continued
              /\ ck.trainer.states = ck.snap.trainer.states

(***************************************************************************)
(* SpecClock: the elapsed-time accounting of TrainState over processes.    *)
(* tm.now is the wall clock, which also runs while no process does;        *)
(* tm.state holds _time_elapsed and _tic_last_time_elapsed of the Ledger   *)
(* in memory and tm.disk those of the pickled Ledger.  tm.since counts the *)
(* time a process has been running since it created, loaded or last saved  *)
(* the Ledger, and tm.down the time no process was running.                *)
(***************************************************************************)
MaxClock == 4

\* TrainState.__init__, lines 108-110
clock_init(now) == [time_elapsed |-> 0, tic_last_time_elapsed |-> now]

\* update_time_elapsed, lines 137-140
update_time_elapsed(st, now) ==
    [st EXCEPT !.time_elapsed = @ + (now - st.tic_last_time_elapsed),
               !.tic_last_time_elapsed = now]

\* a variant of load that keeps the pickled anchor
TrainState_load_keeps_tic(pickled, now) ==
    [time_elapsed |-> pickled.time_elapsed,
     tic_last_time_elapsed |-> pickled.tic_last_time_elapsed]

\* TrainState.load, lines 128-135
TrainState_load(pickled, now) ==
    [time_elapsed |-> pickled.time_elapsed, tic_last_time_elapsed |-> now]

InitClock ==
    tm = [pc |-> "stopped", now |-> 0, state |-> NoState, disk |-> Absent,
          since |-> 0, down |-> 0, loads |-> 0]

\* time passes
TmTick ==
    /\ tm.now < MaxClock
    /\ tm' = [tm EXCEPT !.now = @ + 1,
                        !.since = IF tm.pc = "run" THEN @ + 1 ELSE @,
                        !.down = IF tm.pc = "stopped" THEN @ + 1 ELSE @]
    /\ UNCHANGED <<fitvars, hvd, sh, pf, cv, lp, ev, ck, sp, sv>>

\* fit, lines 189-194: a process starts and creates or loads the Ledger
TmStart ==
    /\ tm.pc = "stopped"
    /\ tm' = [tm EXCEPT !.pc = "run", !.since = 0,
                        !.loads = IF Exists(tm.disk) THEN 1 ELSE @,
                        !.state = IF Exists(tm.disk)
                                  THEN TrainState_load(tm.disk, tm.now)
                                  ELSE clock_init(tm.now)]
    /\ UNCHANGED <<fitvars, hvd, sh, pf, cv, lp, ev, ck, sp, sv>>

\* TrainState.save, lines 119-125
TmSave ==
    /\ tm.pc = "run"
    /\ LET st == update_time_elapsed(tm.state, tm.now)
       IN  tm' = [tm EXCEPT !.state = st, !.since = 0,
                            !.disk = [kind |-> "pickle", time_elapsed |-> st.time_elapsed,
                                      tic_last_time_elapsed |-> st.tic_last_time_elapsed]]
    /\ UNCHANGED <<fitvars, hvd, sh, pf, cv, lp, ev, ck, sp, sv>>

\* the process ends
TmStop ==
    /\ tm.pc = "run"
    /\ tm' = [tm EXCEPT !.pc = "stopped", !.state = NoState, !.since = 0]
    /\ UNCHANGED <<fitvars, hvd, sh, pf, cv, lp, ev, ck, sp, sv>>

InitClockSpec ==
    /\ FitUnused
    /\ hvd = NoHvd
    /\ sh = NoShards
    /\ pf = NoCall
    /\ cv = NoWindow
    /\ lp = NoLoop
    /\ ev = NoEval
    /\ ck = NoArtifacts
    /\ InitClock
    /\ sp = NoSpeed
    /\ sv = NoSave

NextClock ==
    \/ TmTick
    \/ TmStart
    \/ TmSave
    \/ TmStop

SpecClock == InitClockSpec /\ [][NextClock]_vars

(***************************************************************************)
(* Properties of SpecClock                                                 *)
(***************************************************************************)
\* C26: time_elapsed never decreases, in memory, on disk and from disk to memory, and
\* a save adds to it exactly the time the process has been running since it created,
\* loaded or last saved the Ledger: time without a process is not counted.
C26_ElapsedCountsRunningTime ==
    [][/\ (Exists(tm.disk) /\ Exists(tm'.disk)) =>
              tm'.disk.time_elapsed >= tm.disk.time_elapsed
       /\ (tm.pc = "run" /\ tm'.pc = "run") =>
              /\ tm'.state.time_elapsed >= tm.state.time_elapsed
              /\ tm'.state.time_elapsed # tm.state.time_elapsed =>
                     tm'.state.time_elapsed = tm.state.time_elapsed + tm.since
              /\ tm'.disk # tm.disk =>
                     tm'.disk.time_elapsed = tm.state.time_elapsed + tm.since
       /\ (tm.pc = "stopped" /\ tm'.pc = "run" /\ Exists(tm.disk)) =>
              tm'.state.time_elapsed = tm.disk.time_elapsed]_vars

\* a save, two units of time without a process, a load and a later save
C26_Witness ==
    /\ tm.pc = "run"
    /\ tm.loads = 1
    /\ tm.down = 2
    /\ tm.now = 4
    /\ tm.since = 0
    /\ tm.state.time_elapsed = 2
    /\ tm.disk.time_elapsed = 2

(***************************************************************************)
(* SpecSpeed: the Speedometer under the calls of _step (line 350).         *)
(* sp.state is the Ledger of a fresh fit and sp.meter the Speedometer:     *)
(* init, last_count and the samples of its window (its tokens are summed   *)
(* and reset with them).  meter.divisor is the update count the last rate  *)
(* computation divided by.                                                 *)
(***************************************************************************)
MaxFrequency == 3

MaxSpeedBatches == 2 * MaxFrequency

\* Speedometer.__init__, lines 832-840
Speedometer(frequency) ==
    [frequency |-> frequency, init |-> FALSE, last_count |-> 0, samples |-> 0,
     divisor |-> None, raised |-> FALSE]

\* Speedometer.__call__, lines 842-876: batches / updates at line 854 raises
\* ZeroDivisionError when updates is 0
speedometer_call(m, batches, updates, samples) ==
    LET count == batches
        init == IF m.last_count > count THEN FALSE ELSE m.init
        m1 == [m EXCEPT !.init = init, !.last_count = count, !.samples = @ + samples]
    IN  IF init
        THEN IF count % m.frequency = 0
             THEN IF updates = 0
                  THEN [m1 EXCEPT !.divisor = updates, !.raised = TRUE]
                  ELSE [m1 EXCEPT !.divisor = updates, !.samples = 0]
             ELSE m1
        ELSE [m1 EXCEPT !.init = TRUE]

InitSpeed ==
    \E frequency \in 1..MaxFrequency, update_interval \in 1..(MaxFrequency + 1) :
        sp = [pc |-> "loop", update_interval |-> update_interval,
              state |-> TrainState(PERPLEXITY), meter |-> Speedometer(frequency)]

\* _step, lines 321-351
SpStep ==
    /\ sp.pc = "loop"
    /\ sp.state.batches < MaxSpeedBatches
    /\ \E samples \in 1..2 :
          LET st == step(sp.state, samples, sp.update_interval)
              m == speedometer_call(sp.meter, st.batches, st.updates, samples)
          IN  sp' = [sp EXCEPT !.state = st, !.meter = m,
                               !.pc = IF m.raised THEN "raised" ELSE "loop"]
    /\ UNCHANGED <<fitvars, hvd, sh, pf, cv, lp, ev, ck, tm, sv>>

InitSpeedSpec ==
    /\ FitUnused
    /\ hvd = NoHvd
    /\ sh = NoShards
    /\ pf = NoCall
    /\ cv = NoWindow
    /\ lp = NoLoop
    /\ ev = NoEval
    /\ ck = NoArtifacts
    /\ tm = NoClock
    /\ sv = NoSave
    /\ InitSpeed

NextSpeed == SpStep

SpecSpeed == InitSpeedSpec /\ [][NextSpeed]_vars

(***************************************************************************)
(* Properties of SpecSpeed                                                 *)
(***************************************************************************)
\* C29: whenever the Speedometer computes rates, the update count it divides by is
\* greater than zero, for every update_interval and every frequency.
C29_DivisorPositive ==
    (sp # NoSpeed /\ sp.meter.divisor # None) => sp.meter.divisor > 0

(***************************************************************************)
(* SpecSave: _save_training_state operation by operation, over processes   *)
(* that are interrupted inside it and started again.  The training between *)
(* two checkpoints is not followed: a call of _save_training_state is for  *)
(* the checkpoint after the one the Ledger is at.  sv.disk holds the       *)
(* training state directory and its temporary and to-be-deleted siblings;  *)
(* sv.calls counts the calls the running process has begun and             *)
(* sv.interruptions the interruptions so far.                              *)
(***************************************************************************)
MaxInterruptions == 2

MaxSaves == MaxCheckpoints + 1

InitSave ==
    sv = [pc |-> "idle", state |-> NoState,
          disk |-> [training_state |-> Absent, temp |-> Absent, delete |-> Absent],
          calls |-> 0, interruptions |-> 0]

\* fit, lines 189-194: a process starts, from the snapshot if the directory exists
SvFit ==
    /\ sv.pc \in {"idle", "raised"}
    /\ sv' = [sv EXCEPT !.pc = "train", !.calls = 0,
                        !.state = IF Exists(sv.disk.training_state)
                                  THEN load_training_state(sv.disk.training_state).state
                                  ELSE TrainState(PERPLEXITY)]
    /\ UNCHANGED <<fitvars, hvd, sh, pf, cv, lp, ev, ck, tm, sp>>

\* fit, lines 231-268: the next checkpoint boundary, up to the call of
\* _save_training_state
SvCall ==
    /\ sv.pc = "train"
    /\ sv.state.checkpoint < MaxSaves
    /\ sv' = [sv EXCEPT !.pc = "stage", !.calls = @ + 1, !.state.checkpoint = @ + 1]
    /\ UNCHANGED <<fitvars, hvd, sh, pf, cv, lp, ev, ck, tm, sp>>

\* lines 595-630: the temporary directory is made if it is not there, and every file
\* of the snapshot is written into it over what it holds
SvStage ==
    /\ sv.pc = "stage"
    /\ sv' = [sv EXCEPT !.pc = "staged", !.disk.temp = Generation(sv.state)]
    /\ UNCHANGED <<fitvars, hvd, sh, pf, cv, lp, ev, ck, tm, sp>>

\* lines 635-637
SvRenameOld ==
    /\ sv.pc = "staged"
    /\ \E r \in {rename_old(sv.disk)} :
          sv' = [sv EXCEPT !.disk = r.disk, !.pc = IF r.raised THEN "raised" ELSE "moved"]
    /\ UNCHANGED <<fitvars, hvd, sh, pf, cv, lp, ev, ck, tm, sp>>

\* line 638
SvPublish ==
    /\ sv.pc = "moved"
    /\ sv' = [sv EXCEPT !.pc = "published", !.disk = publish(sv.disk, sv.state, 0, <<>>)]
    /\ UNCHANGED <<fitvars, hvd, sh, pf, cv, lp, ev, ck, tm, sp>>

\* lines 639-647
SvRemoveOld ==
    /\ sv.pc = "published"
    /\ sv' = [sv EXCEPT !.pc = "train", !.disk.delete = Absent]
    /\ UNCHANGED <<fitvars, hvd, sh, pf, cv, lp, ev, ck, tm, sp>>

\* the process is interrupted inside _save_training_state: between two operations
\* the disk is as it is; inside the staging some files of the temporary directory
\* are written, inside shutil.rmtree some or all files of the old generation are gone
SvInterrupt ==
    /\ sv.pc \in {"stage", "staged", "moved", "published"}
    /\ sv.interruptions < MaxInterruptions
    /\ \E d \in {sv.disk}
             \cup (IF sv.pc = "stage" THEN {[sv.disk EXCEPT !.temp = Partial]} ELSE {})
             \cup (IF sv.pc = "published" /\ Exists(sv.disk.delete)
                   THEN {[sv.disk EXCEPT !.delete = Partial],
                         [sv.disk EXCEPT !.delete = Empty]}
                   ELSE {}) :
          sv' = [sv EXCEPT !.pc = "idle", !.state = NoState, !.calls = 0, !.disk = d,
                           !.interruptions = @ + 1]
    /\ UNCHANGED <<fitvars, hvd, sh, pf, cv, lp, ev, ck, tm, sp>>

InitSaveSpec ==
    /\ FitUnused
    /\ hvd = NoHvd
    /\ sh = NoShards
    /\ pf = NoCall
    /\ cv = NoWindow
    /\ lp = NoLoop
    /\ ev = NoEval
    /\ ck = NoArtifacts
    /\ tm = NoClock
    /\ sp = NoSpeed
    /\ InitSave

NextSave ==
    \/ SvFit
    \/ SvCall
    \/ SvStage
    \/ SvRenameOld
    \/ SvPublish
    \/ SvRemoveOld
    \/ SvInterrupt

SpecSave == InitSaveSpec /\ [][NextSave]_vars

(***************************************************************************)
(* Properties of SpecSave                                                  *)
(***************************************************************************)
\* the process started after the first interruption is in or past its first call
FirstCallAfterInterruption == sv # NoSave /\ sv.interruptions = 1 /\ sv.calls = 1

\* C31: after one interruption inside _save_training_state and a restart, the next
\* call of _save_training_state raises nothing and, when it has returned, the training
\* state directory holds the snapshot of the new checkpoint.
C31_NextSaveCompletes ==
    FirstCallAfterInterruption =>
        /\ sv.pc # "raised"
        /\ sv.pc = "train" =>
              /\ sv.disk.training_state.kind = "snapshot"
              /\ sv.disk.training_state.state.checkpoint = sv.state.checkpoint

====
